---- MODULE Spec2Model ----
(***************************************************************************)
(* A model of the list-scrub matching engine (src/src/datascrubber).       *)
(*                                                                         *)
(* Cells of a workbook are strings, or the value NA for an empty cell      *)
(* (the NaN pandas reads from an empty Excel cell).  Text is handled       *)
(* character by character, so that the normalisers do what the regular     *)
(* expressions of the source do.  Scores are kept as integers scaled by    *)
(* one hundred (a weight times a 0..100 similarity), which is exact for    *)
(* the integer weights, penalties and thresholds of the model.             *)
(***************************************************************************)
EXTENDS Integers, Sequences, FiniteSets, TLC

----------------------------------------------------------------------------
(* Cells and characters                                                    *)

\* The empty cell (pandas NaN).  No text cell of the model has this value.
NA == "<NaN>"

\* str(cell): Series.astype(str) turns NaN into the text "nan".
AsStr(c) == IF c = NA THEN "nan" ELSE c

\* Series.fillna("")
FillNa(c) == IF c = NA THEN "" ELSE c

\* Python truthiness of a cell: NaN is a non-zero float, so it is truthy.
Truthy(c) == c = NA \/ c # ""

\* a == b in Python: NaN equals nothing, itself included.
PyEq(a, b) == a # NA /\ b # NA /\ a = b

\* a != b in Python: NaN differs from everything.
PyNe(a, b) == a = NA \/ b = NA \/ a # b

\* F at the value of v: the operand is evaluated once, as an argument of a
\* Python call is
Bind(v, F(_)) == CHOOSE r \in {F(x) : x \in {v}} : TRUE

Bind2(v1, v2, F(_, _)) == CHOOSE r \in {F(x, y) : x \in {v1}, y \in {v2}} : TRUE

Char(s, i) == SubSeq(s, i, i)

UpperAlpha == "ABCDEFGHIJKLMNOPQRSTUVWXYZ"
LowerAlpha == "abcdefghijklmnopqrstuvwxyz"
DigitChars == "0123456789"

CharsOf(s) == {Char(s, i) : i \in 1..Len(s)}

UpperSet == CharsOf(UpperAlpha)
LowerSet == CharsOf(LowerAlpha)
DigitSet == CharsOf(DigitChars)

\* \s of the regular expressions (the model's texts hold no tab or newline)
IsSpace(c) == c = " "

\* \w of the regular expressions
IsWord(c) == c \in UpperSet \/ c \in LowerSet \/ c \in DigitSet \/ c = "_"

\* str.isdigit / [0-9] / the complement of \D
IsDigit(c) == c \in DigitSet

LowerMap == [c \in UpperSet |->
               Char(LowerAlpha, CHOOSE i \in 1..Len(UpperAlpha) : Char(UpperAlpha, i) = c)]

LowerChar(c) == IF c \in UpperSet THEN LowerMap[c] ELSE c

RECURSIVE Lower(_)
\* str.lower()
Lower(text) ==
    Bind(text, LAMBDA s : IF s = "" THEN "" ELSE LowerChar(Head(s)) \o Lower(Tail(s)))

RECURSIVE LStrip(_)
LStrip(text) ==
    Bind(text, LAMBDA s : IF s # "" /\ IsSpace(Head(s)) THEN LStrip(Tail(s)) ELSE s)

RECURSIVE RStrip(_)
RStrip(text) ==
    Bind(text, LAMBDA s : IF s # "" /\ IsSpace(Char(s, Len(s)))
                          THEN RStrip(SubSeq(s, 1, Len(s) - 1)) ELSE s)

\* str.strip()
Strip(s) == RStrip(LStrip(s))

RECURSIVE KeepDigits(_)
\* the digits of a text, in order
KeepDigits(text) ==
    Bind(text, LAMBDA s :
        IF s = "" THEN ""
        ELSE IF IsDigit(Head(s)) THEN Head(s) \o KeepDigits(Tail(s))
        ELSE KeepDigits(Tail(s)))

RECURSIVE KeepWordAndSpace(_)
\* re.sub(r'[^\w\s]', '', s)
KeepWordAndSpace(text) ==
    Bind(text, LAMBDA s :
        IF s = "" THEN ""
        ELSE IF IsWord(Head(s)) \/ IsSpace(Head(s))
             THEN Head(s) \o KeepWordAndSpace(Tail(s))
        ELSE KeepWordAndSpace(Tail(s)))

RECURSIVE RemoveSpaces(_)
\* re.sub(r'\s+', '', s), and str.replace(' ', '') on a text whose only blanks are spaces
RemoveSpaces(text) ==
    Bind(text, LAMBDA s :
        IF s = "" THEN ""
        ELSE IF IsSpace(Head(s)) THEN RemoveSpaces(Tail(s))
        ELSE Head(s) \o RemoveSpaces(Tail(s)))

RECURSIVE CollapseSpaces(_)
\* re.sub(r'\s+', ' ', s)
CollapseSpaces(text) ==
    Bind(text, LAMBDA s :
        IF s = "" THEN ""
        ELSE IF IsSpace(Head(s))
             THEN " " \o CollapseSpaces(LStrip(s))
             ELSE Head(s) \o CollapseSpaces(Tail(s)))

StartsWith(s, p) == Len(s) >= Len(p) /\ SubSeq(s, 1, Len(p)) = p

\* the text from position i on
From(s, i) == SubSeq(s, i, Len(s))

\* position of the first occurrence of the character c in s, 0 when there is none
IndexOf(text, c) ==
    Bind(text, LAMBDA s :
        IF \E i \in 1..Len(s) : Char(s, i) = c
        THEN CHOOSE i \in 1..Len(s) :
               Char(s, i) = c /\ \A j \in 1..(i - 1) : Char(s, j) # c
        ELSE 0)

\* s.split(c)[0]
BeforeFirst(text, c) ==
    Bind(text, LAMBDA s :
        Bind(IndexOf(s, c), LAMBDA i : IF i = 0 THEN s ELSE SubSeq(s, 1, i - 1)))

RECURSIVE SplitOn(_, _)
\* s.split(c): the pieces between the occurrences of c
SplitOn(text, c) ==
    Bind(text, LAMBDA s :
        Bind(IndexOf(s, c), LAMBDA i :
            IF i = 0 THEN <<s>>
            ELSE <<SubSeq(s, 1, i - 1)>> \o SplitOn(From(s, i + 1), c)))

RECURSIVE Words(_)
\* re.split(r"\s+", s) without its empty pieces, which is also str.split()
Words(text) ==
    Bind(LStrip(text), LAMBDA t :
        Bind(IndexOf(t, " "), LAMBDA e :
            IF t = "" THEN <<>>
            ELSE IF e = 0 THEN <<t>>
            ELSE <<SubSeq(t, 1, e - 1)>> \o Words(From(t, e + 1))))

RECURSIVE JoinWith(_, _)
\* sep.join(parts)
JoinWith(pieces, sep) ==
    Bind(pieces, LAMBDA parts :
        IF parts = <<>> THEN ""
        ELSE IF Len(parts) = 1 THEN parts[1]
        ELSE parts[1] \o sep \o JoinWith(Tail(parts), sep))

----------------------------------------------------------------------------
(* normalization.py                                                        *)

JUNK_STRINGS == {"nan", "none", "null", "n/a", "na", "-", ""}

\* _clean_text_series, on one cell
CleanText(c) ==
    Bind(Strip(Lower(FillNa(c))), LAMBDA x : IF x \in JUNK_STRINGS THEN "" ELSE x)

\* does r'\s+-\s+' match at position i of s
DashAt(s, i) ==
    /\ IsSpace(Char(s, i))
    /\ \E j \in i..Len(s) :
         /\ \A k \in i..j : IsSpace(Char(s, k))
         /\ j + 2 <= Len(s)
         /\ Char(s, j + 1) = "-"
         /\ IsSpace(Char(s, j + 2))

\* re.sub(r'\s+-\s+.*$', '', s): cut from the leftmost match on
CutGeoSuffix(text) ==
    Bind(text, LAMBDA s :
        IF \E i \in 1..Len(s) : DashAt(s, i)
        THEN SubSeq(s, 1, (CHOOSE i \in 1..Len(s) :
                             DashAt(s, i) /\ \A k \in 1..(i - 1) : ~DashAt(s, k)) - 1)
        ELSE s)

CompanySuffixes == {"llc", "inc", "corp", "ltd", "lp", "co"}

RECURSIVE RemoveSuffixWords(_)
\* re.sub(r'\b(llc|inc|corp|ltd|lp|co)\b', '', s) on a text of word characters
\* and blanks: a maximal run of word characters is deleted when it is a suffix
RemoveSuffixWords(text) ==
    Bind(text, LAMBDA s :
        IF s = "" THEN ""
        ELSE IF IsSpace(Head(s)) THEN Head(s) \o RemoveSuffixWords(Tail(s))
        ELSE Bind(IndexOf(s, " "), LAMBDA e :
                 LET w == IF e = 0 THEN s ELSE SubSeq(s, 1, e - 1)
                     rest == IF e = 0 THEN "" ELSE From(s, e)
                 IN (IF w \in CompanySuffixes THEN "" ELSE w) \o RemoveSuffixWords(rest)))

\* normalize_company, on one cell of an existing column
NormCompany(c) ==
    LET s1 == Lower(AsStr(c))
        s2 == CutGeoSuffix(s1)
        s3 == KeepWordAndSpace(s2)
        s4 == RemoveSuffixWords(s3)
        s5 == Strip(CollapseSpaces(s4))
    IN RemoveSpaces(s5)

StreetUnitMarks == {"#", "apt", "suite", "ste"}

\* does r'\s(?:#|apt|suite|ste)' match at position i of s
UnitAt(s, i) == /\ IsSpace(Char(s, i))
                /\ \E m \in StreetUnitMarks : StartsWith(From(s, i + 1), m)

\* normalize_street, on one cell
NormStreet(c) ==
    Bind(CleanText(c), LAMBDA s :
        LET cut == IF \E i \in 1..Len(s) : UnitAt(s, i)
                   THEN SubSeq(s, 1, (CHOOSE i \in 1..Len(s) :
                                        UnitAt(s, i) /\ \A k \in 1..(i - 1) : ~UnitAt(s, k)) - 1)
                   ELSE s
        IN Strip(RemoveSpaces(KeepWordAndSpace(cut))))

\* normalize_postal.format_postal with the last five digits
NormPostalLast(c) ==
    IF c = NA THEN ""
    ELSE Bind(KeepDigits(c), LAMBDA digits :
             IF Len(digits) >= 5 THEN SubSeq(digits, Len(digits) - 4, Len(digits)) ELSE "")

\* normalize_postal.format_postal
NormPostal(c) ==
    IF c = NA THEN ""
    ELSE Bind(KeepDigits(c), LAMBDA digits :
             IF Len(digits) >= 5 THEN SubSeq(digits, 1, 5) ELSE "")

\* re.sub(r'^(https?://)?(www\.)?', '', s)
StripSchemeWww(text) ==
    Bind(text, LAMBDA s :
        LET a == IF StartsWith(s, "https://") THEN From(s, 9)
                 ELSE IF StartsWith(s, "http://") THEN From(s, 8)
                 ELSE s
        IN IF StartsWith(a, "www.") THEN From(a, 5) ELSE a)

\* normalize_website, on one cell
NormWebsite(c) ==
    Strip(BeforeFirst(BeforeFirst(StripSchemeWww(CleanText(c)), "/"), "?"))

\* normalize_domain.extract, on one normalizedwebsite value
NormDomain(host) ==
    IF host = NA THEN ""
    ELSE Bind(BeforeFirst(BeforeFirst(StripSchemeWww(Strip(Lower(host))), "/"), "?"),
              LAMBDA h :
                Bind(SplitOn(h, "."), LAMBDA parts :
                    LET n == Len(parts)
                        sld == IF n >= 2 THEN parts[n - 1] \o "." \o parts[n] ELSE h
                    IN IF h = "" THEN ""
                       ELSE IF n <= 2 THEN h
                       ELSE IF sld \in {"co.uk", "org.uk", "ac.uk", "com.au", "net.au", "co.jp"}
                            THEN parts[n - 2] \o "." \o sld
                       ELSE sld))

\* normalize_phone, on one cell: extractall(r'([0-9])') has rows only for the
\* cells that hold a digit, so after the index-aligned assignment a cell
\* without any digit is NaN
NormPhone(c) ==
    Bind(KeepDigits(AsStr(c)), LAMBDA digits : IF digits = "" THEN NA ELSE digits)

\* normalize_text_field, on one cell
NormText(c) == CleanText(c)

\* the entries of normalize_state.state_map that the model's cells can hit
StateNames == {"texas", "california", "new york"}

StateCode(v) == CASE v = "texas" -> "tx"
                  [] v = "california" -> "ca"
                  [] v = "new york" -> "ny"

StateCodes == {"tx", "ca", "ny"}

\* normalize_state.canon
NormState(c) ==
    IF c = NA THEN ""
    ELSE Bind(Lower(Strip(c)), LAMBDA v :
             IF v = "" THEN ""
             ELSE IF v \in StateCodes THEN v
             ELSE IF v \in StateNames THEN StateCode(v)
             ELSE v)

CountryNames == {"united states", "united states of america", "usa", "us",
                 "canada", "ca", "united kingdom", "uk", "great britain",
                 "australia", "au"}

CountryCode(v) == CASE v \in {"united states", "united states of america", "usa", "us"} -> "us"
                    [] v \in {"canada", "ca"} -> "ca"
                    [] v \in {"united kingdom", "uk", "great britain"} -> "gb"
                    [] v \in {"australia", "au"} -> "au"

\* normalize_country.canon
NormCountry(c) ==
    IF c = NA THEN ""
    ELSE Bind(Lower(Strip(c)), LAMBDA v :
             IF v = "" THEN ""
             ELSE IF v \in CountryNames THEN CountryCode(v)
             ELSE v)

----------------------------------------------------------------------------
(* thefuzz: fuzz.ratio and fuzz.token_set_ratio                            *)

Max(x, y) == Bind2(x, y, LAMBDA a, b : IF a >= b THEN a ELSE b)

RECURSIVE LcsRow(_, _, _, _, _)
\* one row of the longest-common-subsequence table: prev is the row above,
\* acc the cells of this row to the left of column j
LcsRow(prev, ch, b, j, cells) ==
    Bind(cells, LAMBDA acc :
        IF j > Len(b) THEN acc
        ELSE LET diag == IF j = 1 THEN 0 ELSE prev[j - 1]
                 left == IF j = 1 THEN 0 ELSE acc[j - 1]
                 cell == IF Char(b, j) = ch THEN diag + 1 ELSE Max(prev[j], left)
             IN LcsRow(prev, ch, b, j + 1, Append(acc, cell)))

RECURSIVE LcsFrom(_, _, _, _)
LcsFrom(a, b, i, above) ==
    Bind(above, LAMBDA prev :
        IF i > Len(a) THEN (IF Len(b) = 0 THEN 0 ELSE prev[Len(b)])
        ELSE LcsFrom(a, b, i + 1, LcsRow(prev, Char(a, i), b, 1, <<>>)))

\* length of the longest common subsequence of two texts
Lcs(a, b) == LcsFrom(a, b, 1, [j \in 1..Len(b) |-> 0])

\* int(round(num / den)), Python's round-half-to-even, for num >= 0 and den > 0
RoundDiv(num, den) ==
    Bind2(num \div den, num % den, LAMBDA q, r :
        IF 2 * r > den THEN q + 1
        ELSE IF 2 * r < den THEN q
        ELSE IF q % 2 = 0 THEN q ELSE q + 1)

\* fuzz.ratio: the normalised indel similarity 2*LCS/(|a|+|b|) as an integer
\* 0..100; an empty operand gives 0 (every caller of the account scorer
\* passes non-empty texts)
Ratio(s1, s2) ==
    Bind2(s1, s2, LAMBDA a, b :
        IF a = "" \/ b = "" THEN 0
        ELSE RoundDiv(200 * Lcs(a, b), Len(a) + Len(b)))

RECURSIVE FullProcessChars(_)
FullProcessChars(text) ==
    Bind(text, LAMBDA s :
        IF s = "" THEN ""
        ELSE (IF IsWord(Head(s)) THEN LowerChar(Head(s)) ELSE " ")
             \o FullProcessChars(Tail(s)))

\* utils.full_process: non-alphanumerics to blanks, lower case, strip
FullProcess(s) == Strip(FullProcessChars(s))

\* code-point order of the characters that remain after full_process
CharOrder == "0123456789_abcdefghijklmnopqrstuvwxyz"

CharRank(c) == IndexOf(CharOrder, c)

RECURSIVE StrLess(_, _)
\* a < b for Python strings
StrLess(a, b) ==
    IF b = "" THEN FALSE
    ELSE IF a = "" THEN TRUE
    ELSE IF Head(a) = Head(b) THEN StrLess(Tail(a), Tail(b))
    ELSE CharRank(Head(a)) < CharRank(Head(b))

RECURSIVE SortedTokens(_)
\* sorted(tokens) for a set of texts
SortedTokens(tokens) ==
    Bind(tokens, LAMBDA S :
        IF S = {} THEN <<>>
        ELSE Bind(CHOOSE x \in S : \A y \in S \ {x} : StrLess(x, y),
                  LAMBDA m : <<m>> \o SortedTokens(S \ {m})))

SeqToSet(items) == Bind(items, LAMBDA q : {q[i] : i \in 1..Len(q)})

\* fuzz.token_set_ratio
TokenSetRatio(s1, s2) ==
    Bind2(FullProcess(s1), FullProcess(s2), LAMBDA p1, p2 :
        IF p1 = "" \/ p2 = "" THEN 0
        ELSE Bind2(SeqToSet(Words(p1)), SeqToSet(Words(p2)), LAMBDA tokens1, tokens2 :
            Bind(JoinWith(SortedTokens(tokens1 \cap tokens2), " "), LAMBDA sorted_sect :
                LET sorted_1to2 == JoinWith(SortedTokens(tokens1 \ tokens2), " ")
                    sorted_2to1 == JoinWith(SortedTokens(tokens2 \ tokens1), " ")
                IN Bind2(Strip(sorted_sect \o " " \o sorted_1to2),
                         Strip(sorted_sect \o " " \o sorted_2to1),
                         LAMBDA combined_1to2, combined_2to1 :
                            Max(Ratio(sorted_sect, combined_1to2),
                                Max(Ratio(sorted_sect, combined_2to1),
                                    Ratio(combined_1to2, combined_2to1)))))))

----------------------------------------------------------------------------
(* scrubbing.py: helpers of AccountScrubber                                *)

FacilityTokens == {"hospital", "clinic", "center", "centre", "rehab", "rehabilitation",
                   "care", "nursing", "facility", "facilities", "health", "healthcare"}

\* _strip_generic_facility_tokens
StripGenericFacilityTokens(text) ==
    Bind(text, LAMBDA value :
        IF value = "" THEN ""
        ELSE JoinWith(SelectSeq(Words(value), LAMBDA w : w \notin FacilityTokens), " "))

\* _normalize_identifier, on one cell
NormalizeIdentifier(c, digits_only) ==
    Bind(Lower(Strip(FillNa(c))), LAMBDA s :
        IF digits_only
        THEN Bind(KeepDigits(s), LAMBDA d : IF d # "" /\ Len(d) \in {5, 6} THEN d ELSE "")
        ELSE (IF Len(s) >= 5 THEN s ELSE ""))

\* the normalisation loop of run (lines 237-252) on one row of the input list
\* or of the account export, after the column renames; the raw cells stay in
\* the row, city, state and country are overwritten in place
NormalizeRow(raw) ==
    Bind2(raw, NormWebsite(raw.website), LAMBDA r, web :
        [r EXCEPT !.city = NormText(r.city),
                  !.state = NormState(r.state),
                  !.country = NormCountry(r.country)]
        @@ [normalizedcompany |-> NormCompany(r.company),
            normalizedwebsite |-> web,
            normalizeddomain  |-> NormDomain(web),
            normalizedphone   |-> NormPhone(r.phone),
            normalizedstreet  |-> NormStreet(r.street),
            normalizedpostal  |-> NormPostal(r.postal),
            normalized_lob    |-> NormText(r.lob),
            normalizedccn     |-> NormalizeIdentifier(r.ccn, TRUE),
            normalizeddhc     |-> NormalizeIdentifier(r.dhc, FALSE)])

\* the search string of an account row (lines 264-270) and of an input row
\* (lines 318-325)
SearchString(row) ==
    Strip(StripGenericFacilityTokens(FillNa(row.normalizedcompany))
          \o " " \o row.normalizedwebsite \o " " \o row.normalizedpostal)

\* _build_index(df, column).get(key, []): the positions of the account rows
\* whose column holds key; groupby drops NaN keys and the comprehension drops
\* the empty key
IndexGet(df, column, key) ==
    IF key = NA \/ key = "" THEN <<>>
    ELSE SelectSeq([j \in 1..Len(df) |-> j], LAMBDA j : df[j][column] = key)

\* lines 329-339 with the state block asked before the postal block
CandidateIndicesStateFirst(row, accounts) ==
    LET c1 == IF Truthy(row.state)
              THEN IndexGet(accounts, "state", row.state) ELSE <<>>
        c2 == IF c1 = <<>> /\ Truthy(row.normalizedpostal)
              THEN IndexGet(accounts, "normalizedpostal", row.normalizedpostal) ELSE c1
        c3 == IF c2 = <<>> /\ Truthy(row.normalizeddomain)
              THEN IndexGet(accounts, "normalizeddomain", row.normalizeddomain) ELSE c2
        c4 == IF c3 = <<>> /\ Truthy(row.normalizedphone)
              THEN IndexGet(accounts, "normalizedphone", row.normalizedphone) ELSE c3
    IN IF c4 = <<>> THEN [j \in 1..Len(accounts) |-> j] ELSE c4

\* the candidate positions of one query row (lines 329-339)
CandidateIndices(row, accounts) ==
    LET c1 == IF Truthy(row.normalizedpostal)
              THEN IndexGet(accounts, "normalizedpostal", row.normalizedpostal) ELSE <<>>
        c2 == IF c1 = <<>> /\ Truthy(row.state)
              THEN IndexGet(accounts, "state", row.state) ELSE c1
        c3 == IF c2 = <<>> /\ Truthy(row.normalizeddomain)
              THEN IndexGet(accounts, "normalizeddomain", row.normalizeddomain) ELSE c2
        c4 == IF c3 = <<>> /\ Truthy(row.normalizedphone)
              THEN IndexGet(accounts, "normalizedphone", row.normalizedphone) ELSE c3
    IN IF c4 = <<>> THEN [j \in 1..Len(accounts) |-> j] ELSE c4

----------------------------------------------------------------------------
(* _score_candidate: every signal is a pair <<contribution, fragments>>,   *)
(* the contribution in hundredths                                          *)

\* f"{x:.0f}" for x = v / 100 >= 0
Fmt0(v) == ToString(RoundDiv(v, 100))

NoSignal == <<0, <<>>>>

CountryPart(st, q, c) ==
    IF Truthy(q.country) /\ Truthy(c.country) /\ PyNe(q.country, c.country)
    THEN <<-100 * st.location_mismatch_penalty,
           <<"CountryMismatch(-" \o ToString(st.location_mismatch_penalty) \o ")">>>>
    ELSE NoSignal

\* a state penalty that does not ask whether either side is empty
StatePartUnguarded(st, q, c) ==
    IF PyNe(q.state, c.state)
    THEN <<-100 * st.location_mismatch_penalty,
           <<"StateMismatch(-" \o ToString(st.location_mismatch_penalty) \o ")">>>>
    ELSE NoSignal

StatePart(st, q, c) ==
    IF Truthy(q.state) /\ Truthy(c.state) /\ PyNe(q.state, c.state)
    THEN <<-100 * st.location_mismatch_penalty,
           <<"StateMismatch(-" \o ToString(st.location_mismatch_penalty) \o ")">>>>
    ELSE NoSignal

NamePart(st, q, c) ==
    Bind(st.company_name * TokenSetRatio(q.normalizedcompany, c.normalizedcompany),
         LAMBDA name_score :
            IF name_score > 100
            THEN <<name_score, <<"Name(" \o Fmt0(name_score) \o ")">>>>
            ELSE NoSignal)

WebsitePart(st, q, c) ==
    LET sw == q.normalizedwebsite
        dw == c.normalizedwebsite
    IN IF Truthy(sw) /\ Truthy(dw) /\ PyEq(sw, dw)
       THEN <<100 * st.website, <<"Website(" \o ToString(st.website) \o ")">>>>
       ELSE IF Truthy(sw) /\ Truthy(dw) /\ PyNe(sw, dw) /\ st.conflicting_website_penalty # 0
       THEN <<-100 * st.conflicting_website_penalty,
              <<"WebsiteMismatch(-" \o ToString(st.conflicting_website_penalty) \o ")">>>>
       ELSE NoSignal

PhonePart(st, q, c) ==
    IF Truthy(q.normalizedphone) /\ Truthy(c.normalizedphone)
       /\ PyEq(q.normalizedphone, c.normalizedphone)
    THEN <<100 * st.phone, <<"Phone(" \o ToString(st.phone) \o ")">>>>
    ELSE NoSignal

StreetPart(st, q, c) ==
    IF Truthy(q.normalizedstreet) /\ Truthy(c.normalizedstreet)
    THEN Bind(st.street * Ratio(q.normalizedstreet, c.normalizedstreet),
              LAMBDA street_score :
                 IF street_score > 100
                 THEN <<street_score, <<"Street(" \o Fmt0(street_score) \o ")">>>>
                 ELSE NoSignal)
    ELSE NoSignal

CityPart(st, q, c) ==
    IF Truthy(q.city) /\ Truthy(c.city)
    THEN Bind(st.city * Ratio(q.city, c.city), LAMBDA city_score :
             IF city_score > 100
             THEN <<city_score, <<"City(" \o Fmt0(city_score) \o ")">>>>
             ELSE NoSignal)
    ELSE NoSignal

PostalPart(st, q, c) ==
    IF Truthy(q.normalizedpostal) /\ PyEq(q.normalizedpostal, c.normalizedpostal)
    THEN <<100 * st.postal_code, <<"Postal(" \o ToString(st.postal_code) \o ")">>>>
    ELSE NoSignal

LobPart(st, q, c) ==
    IF Truthy(q.normalized_lob) /\ Truthy(c.normalized_lob)
    THEN Bind(st.primary_lob * TokenSetRatio(q.normalized_lob, c.normalized_lob),
              LAMBDA lob_score :
                 IF lob_score > 100
                 THEN <<lob_score, <<"LOB(" \o Fmt0(lob_score) \o ")">>>>
                 ELSE NoSignal)
    ELSE NoSignal

\* the signals in the order the function evaluates them
ScoreParts(st, q, c) ==
    << CountryPart(st, q, c), StatePart(st, q, c), NamePart(st, q, c),
       WebsitePart(st, q, c), PhonePart(st, q, c), StreetPart(st, q, c),
       CityPart(st, q, c), PostalPart(st, q, c), LobPart(st, q, c) >>

RECURSIVE SumParts(_)
SumParts(signals) ==
    Bind(signals, LAMBDA parts :
        IF parts = <<>> THEN 0 ELSE parts[1][1] + SumParts(Tail(parts)))

RECURSIVE CatParts(_)
CatParts(signals) ==
    Bind(signals, LAMBDA parts :
        IF parts = <<>> THEN <<>> ELSE parts[1][2] \o CatParts(Tail(parts)))

\* _score_candidate(scrub_row, db_row): <<score in hundredths, details>>
ScoreCandidate(st, scrub_row, db_row) ==
    Bind2(scrub_row, db_row, LAMBDA q, c :
        Bind(ScoreParts(st, q, c), LAMBDA parts :
            <<SumParts(parts), JoinWith(CatParts(parts), ",")>>))

----------------------------------------------------------------------------
(* The workbooks and the configuration the runs are given                  *)

\* the most rows an input list holds
MaxRows == 2

\* [Scoring_Weights], [Scoring_Penalties] and minimum_final_score of the
\* configuration of tests/test_scrubbing_smoke.py
company_name == 50
website == 40
phone == 35
street == 25
postal_code == 15
city == 10
primary_lob == 10
location_mismatch_penalty == 5
conflicting_website_penalty == 2
minimum_final_score == 50

\* a threshold below the scorer's initial highest_score of -1
NegativeThreshold == 0 - 2

Thresholds == {NegativeThreshold, minimum_final_score}

SettingsOf(t) ==
    [minimum_final_score |-> t,
     company_name |-> company_name, website |-> website, phone |-> phone,
     street |-> street, postal_code |-> postal_code, city |-> city,
     primary_lob |-> primary_lob,
     location_mismatch_penalty |-> location_mismatch_penalty,
     conflicting_website_penalty |-> conflicting_website_penalty]

BlankCells ==
    [company |-> NA, street |-> NA, city |-> NA, state |-> NA, postal |-> NA,
     country |-> NA, phone |-> NA, website |-> NA, lob |-> NA, ccn |-> NA,
     dhc |-> NA]

\* rows of an input list, named by their columns after scrub_map
InputAcme ==
    [company |-> "Acme LLC", street |-> "123 Main St", city |-> "Austin",
     state |-> "TX", postal |-> "78701", country |-> "US",
     phone |-> "555-555-1234", website |-> "acme.com", lob |-> NA, ccn |-> NA,
     dhc |-> NA, email |-> "info@acme.com"]

InputBlank == BlankCells @@ [email |-> NA]

InputZzzqx ==
    [BlankCells EXCEPT !.company = "Zzzqx", !.state = "CA", !.ccn = "12345"]
    @@ [email |-> NA]

InputZeta ==
    [BlankCells EXCEPT !.company = "Zeta Labs", !.state = "California",
                       !.website = "https://www.zeta.io/about",
                       !.lob = "Home Health", !.dhc = "DH-9001"]
    @@ [email |-> "ghost@x.org"]

InputQq ==
    [BlankCells EXCEPT !.company = "Qq", !.state = "TX", !.country = "Canada",
                       !.website = "qq.net", !.dhc = "DH-9001"]
    @@ [email |-> NA]

InputSuffixOnly ==
    [BlankCells EXCEPT !.company = "LLC", !.ccn = "12345"] @@ [email |-> NA]

\* a company cell that normalises to nothing, and no other cell
InputIncOnly == [BlankCells EXCEPT !.company = "Inc."] @@ [email |-> NA]

InputPool == {InputAcme, InputBlank, InputZzzqx, InputZeta, InputQq, InputSuffixOnly,
              InputIncOnly}

\* rows of an input list that exercise the normalisers
NormTest ==
    [BlankCells EXCEPT !.company = "Acme, Inc - San Jose, CA",
                       !.website = "https://www.acme.com/",
                       !.phone = "(555) 555-1234", !.postal = "12345-6789"]
    @@ [email |-> NA]

NormSpaced ==
    [BlankCells EXCEPT !.company = "L L C", !.website = "www.www.x.com",
                       !.phone = "n/a", !.postal = "1234"]
    @@ [email |-> NA]

NormDotted ==
    [BlankCells EXCEPT !.company = "L.L.C.", !.website = "http://www.y.org?q=1",
                       !.phone = "ext", !.postal = "A1B 2C3"]
    @@ [email |-> NA]

NormShop ==
    [BlankCells EXCEPT !.company = "Co-Op Ltd", !.website = "shop.www.com/x",
                       !.phone = "1", !.postal = "00501"]
    @@ [email |-> NA]

NormUpper ==
    [BlankCells EXCEPT !.company = "Zeta Corp", !.website = "WWW.Zeta.IO",
                       !.phone = "+1 (0)", !.postal = "9 0 2 1 0 1"]
    @@ [email |-> NA]

NormPool == {NormTest, NormSpaced, NormDotted, NormShop, NormUpper, InputBlank, InputAcme}

\* rows of the account export, named by their columns after accounts_map
AccountAcme ==
    [account_id |-> "A001", company |-> "Acme Incorporated",
     street |-> "123 Main Street", city |-> "Austin", state |-> "TX",
     postal |-> "78701", country |-> "US", phone |-> "5555551234",
     website |-> "acme.com", lob |-> "Healthcare", ccn |-> NA, dhc |-> NA]

AccountZeta ==
    [BlankCells EXCEPT !.company = "Zeta Labs Inc", !.state = "CA",
                       !.website = "zeta.io", !.lob = "Home Health Care",
                       !.ccn = "12345"]
    @@ [account_id |-> "A002"]

AccountBlank ==
    [BlankCells EXCEPT !.dhc = "dh-9001"] @@ [account_id |-> "A003"]

AccountAcmeWest ==
    [BlankCells EXCEPT !.company = "Acme West", !.state = "Texas",
                       !.ccn = "12345", !.dhc = "DH-9001"]
    @@ [account_id |-> "A001"]

\* rows of the contact export
ContactInfo == [email |-> "info@acme.com", accountid |-> "A001"]
ContactInfoZeta == [email |-> "info@acme.com", accountid |-> "A002"]
ContactGhost == [email |-> "ghost@x.org", accountid |-> "A404"]
ContactNoEmail == [email |-> NA, accountid |-> "A002"]

\* the reference workbooks a run can be given
References ==
    { [accounts |-> <<AccountAcme, AccountZeta>>,
       contacts |-> <<ContactInfo, ContactGhost>>],
      [accounts |-> <<AccountZeta, AccountBlank, AccountAcme>>,
       contacts |-> <<ContactNoEmail, ContactInfoZeta, ContactInfo>>],
      [accounts |-> <<AccountAcme, AccountAcmeWest, AccountZeta>>,
       contacts |-> <<ContactInfo>>] }

\* the input lists of at most n rows
InputLists(pool, n) == UNION {[1..k -> pool] : k \in 1..n}

----------------------------------------------------------------------------
(* AccountScrubber.run, stage by stage                                     *)

\* NaN in the numeric column match_score
NoScore == 0 - 1000000

\* None, the initial best_match of the scoring loop
None == [none |-> TRUE]

RECURSIVE Flatten(_)
Flatten(lists) ==
    Bind(lists, LAMBDA qs : IF qs = <<>> THEN <<>> ELSE qs[1] \o Flatten(Tail(qs)))

Positions(q) == [j \in 1..Len(q) |-> j]

\* the column original_index of a frame of match records, as a set
IndexSet(frame) == {frame[k].original_index : k \in 1..Len(frame)}

\* lines 180-252: load the workbooks, number the input rows, normalise both
\* sides (original_index is the row's position, counted from 1 here)
LoadScrub(list) ==
    [i \in 1..Len(list) |-> NormalizeRow(list[i]) @@ [original_index |-> i]]

LoadAccounts(list) ==
    [j \in 1..Len(list) |->
        Bind(NormalizeRow(list[j]), LAMBDA r : r @@ [search_string |-> SearchString(r)])]

\* contacts_df[["email", "accountid"]].dropna(subset=["email"])
\*     .drop_duplicates(subset=["email"]) after email.astype(str): astype
\* leaves no NaN to drop, the first contact of every email text is kept
DedupContacts(contacts) ==
    SelectSeq([k \in 1..Len(contacts) |->
                   [email |-> AsStr(contacts[k].email),
                    accountid |-> contacts[k].accountid, pos |-> k]],
              LAMBDA c : \A k \in 1..(c.pos - 1) : AsStr(contacts[k].email) # c.email)

\* lines 283-288: the inner join of the input on email
EmailMatchedIds(scrub, contacts) ==
    LET right == DedupContacts(contacts)
    IN Flatten([i \in 1..Len(scrub) |->
          LET hits == SelectSeq(right, LAMBDA c : c.email = AsStr(scrub[i].email))
          IN [k \in 1..Len(hits) |->
                 [original_index |-> scrub[i].original_index,
                  email |-> hits[k].email, accountid |-> hits[k].accountid]]])

\* lines 290-306: the left join onto the accounts (a merge pairs equal keys,
\* NaN with NaN included) and the constant columns of an email match
EmailMatchesFinal(ids, accounts) ==
    Flatten([k \in 1..Len(ids) |->
       LET hits == SelectSeq(Positions(accounts),
                             LAMBDA j : accounts[j].account_id = ids[k].accountid)
       IN IF hits = <<>>
          THEN << [original_index |-> ids[k].original_index,
                   matched_accountid |-> NA, match_score |-> 10000,
                   match_type |-> "Email Match", matched_company_name |-> NA] >>
          ELSE [h \in 1..Len(hits) |->
                   [original_index |-> ids[k].original_index,
                    matched_accountid |-> accounts[hits[h]].account_id,
                    match_score |-> 10000, match_type |-> "Email Match",
                    matched_company_name |-> accounts[hits[h]].company]]])

\* lines 278-306
EmailStage(scrub, has_email, contacts, accounts) ==
    IF has_email
    THEN EmailMatchesFinal(EmailMatchedIds(scrub, contacts), accounts)
    ELSE <<>>

\* lines 310-311: the rows Stage 2 scans
FuzzySearchDf(scrub, email_matches) ==
    SelectSeq(scrub, LAMBDA r : r.original_index \notin IndexSet(email_matches))

RECURSIVE ScoreLoop(_, _, _, _, _, _)
\* lines 345-365: the scoring loop over the ranked candidates; state is
\* <<highest_score, best_match>>
ScoreLoop(st, row, accounts, order, k, best) ==
    Bind(best, LAMBDA state :
        IF k > Len(order) THEN state
        ELSE Bind2(accounts[order[k]], ScoreCandidate(st, row, accounts[order[k]]),
                   LAMBDA candidate, sd :
                      ScoreLoop(st, row, accounts, order, k + 1,
                                IF sd[1] > state[1]
                                THEN << sd[1],
                                        [original_index |-> row.original_index,
                                         matched_accountid |-> candidate.account_id,
                                         match_score |-> sd[1], match_type |-> sd[2],
                                         matched_company_name |-> candidate.company] >>
                                ELSE state)))

\* _vectorizer_cache_path: the key of the cache entry, the search strings
\* joined with "|"; sha1 is taken to give different digests to different
\* texts
CacheKey(accounts) ==
    JoinWith([j \in 1..Len(accounts) |-> FillNa(accounts[j].search_string)], "|")

\* TfidfVectorizer.fit_transform(accounts_df["search_string"]): the fitted
\* pair is a function of the column, and is kept as the column itself, one
\* matrix row per account
FitTransform(accounts) == [j \in 1..Len(accounts) |-> accounts[j].search_string]

\* pickle.dump of the pair under the key
CachePut(entries, key, pair) ==
    [k \in DOMAIN entries \cup {key} |-> IF k = key THEN pair ELSE entries[k]]

\* highest_score = -1, best_match = None
LoopStart == << 0 - 100, None >>

\* the orders in which the candidates can be scored: the ranker passes on the
\* top 25 by cosine similarity, which are all of them for the lists of the
\* model, in an order the model leaves open
TopK == 25

Min(a, b) == IF a <= b THEN a ELSE b

RankedOrders(candidates) ==
    {p \in [1..Min(TopK, Len(candidates)) -> SeqToSet(candidates)] :
        \A a, b \in DOMAIN p : a # b => p[a] # p[b]}

\* lines 317-368 without the test of the search string at 326-327
FuzzyRowNoSkip(st, row, accounts, order) ==
    Bind(ScoreLoop(st, row, accounts, order, 1, LoopStart), LAMBDA final :
        IF final[1] >= 100 * st.minimum_final_score THEN <<final[2]>> ELSE <<>>)

\* a Stage 2 that takes the first candidate of the ranking that reaches the
\* threshold instead of the best one
FuzzyRowFirstEnough(st, row, accounts, order) ==
    IF SearchString(row) = "" THEN <<>>
    ELSE Bind({k \in 1..Len(order) :
                  ScoreCandidate(st, row, accounts[order[k]])[1]
                      >= 100 * st.minimum_final_score},
              LAMBDA enough :
                 IF enough = {} THEN <<>>
                 ELSE Bind(CHOOSE k \in enough : \A h \in enough : k <= h, LAMBDA k :
                         Bind2(accounts[order[k]],
                               ScoreCandidate(st, row, accounts[order[k]]),
                               LAMBDA candidate, sd :
                                  << [original_index |-> row.original_index,
                                      matched_accountid |-> candidate.account_id,
                                      match_score |-> sd[1], match_type |-> sd[2],
                                      matched_company_name |-> candidate.company] >>)))

\* lines 317-368 for one row and one ranking: what the row appends to
\* all_fuzzy_matches
FuzzyRow(st, row, accounts, order) ==
    IF SearchString(row) = "" THEN <<>>
    ELSE Bind(ScoreLoop(st, row, accounts, order, 1, LoopStart), LAMBDA final :
             IF final[1] >= 100 * st.minimum_final_score THEN <<final[2]>> ELSE <<>>)

\* line 370, pd.DataFrame(all_fuzzy_matches): a list of dicts gives one row
\* per dict; a list whose first element is None is taken as a plain column
\* of objects, a frame without any of the match columns; a None after a
\* first dict raises AttributeError
FrameRaises(list) == list # <<>> /\ list[1] # None /\ \E k \in 1..Len(list) : list[k] = None

FrameIsPlain(list) == list # <<>> /\ list[1] = None

FuzzyFrame(list) == IF FrameIsPlain(list) THEN <<>> ELSE list

\* lines 373-374 with the email indices alone in matched_indices
UnmatchedDfEmailOnly(scrub, email_matches, fuzzy_frame) ==
    SelectSeq(scrub, LAMBDA r : r.original_index \notin IndexSet(email_matches))

\* lines 373-374
UnmatchedDf(scrub, email_matches, fuzzy_frame) ==
    SelectSeq(scrub, LAMBDA r : r.original_index \notin
                                   (IndexSet(email_matches) \cup IndexSet(fuzzy_frame)))

\* lines 376-377 with drop_duplicates(keep="last")
LastWith(accounts, column, key) ==
    IF \E j \in 1..Len(accounts) : accounts[j][column] = key
    THEN CHOOSE j \in 1..Len(accounts) :
           /\ accounts[j][column] = key
           /\ \A h \in (j + 1)..Len(accounts) : accounts[h][column] # key
    ELSE 0

\* lines 376-377: drop_duplicates keeps the first account of every key
FirstWith(accounts, column, key) ==
    IF \E j \in 1..Len(accounts) : accounts[j][column] = key
    THEN CHOOSE j \in 1..Len(accounts) :
           /\ accounts[j][column] = key
           /\ \A h \in 1..(j - 1) : accounts[h][column] # key
    ELSE 0

\* lines 381-404 for one row
DeterministicRow(row, accounts) ==
    LET byCcn == FirstWith(accounts, "normalizedccn", row.normalizedccn)
        byDhc == FirstWith(accounts, "normalizeddhc", row.normalizeddhc)
        rec(j, type) == [original_index |-> row.original_index,
                         matched_accountid |-> accounts[j].account_id,
                         match_score |-> 9900, match_type |-> type,
                         matched_company_name |-> accounts[j].company]
    IN IF Truthy(row.normalizedccn) /\ byCcn # 0 THEN <<rec(byCcn, "CCN Match")>>
       ELSE IF Truthy(row.normalizeddhc) /\ byDhc # 0 THEN <<rec(byDhc, "DHC Match")>>
       ELSE <<>>

\* lines 379-406
DeterministicStage(unmatched_rows, accounts) ==
    Bind(unmatched_rows, LAMBDA unmatched :
        Flatten([k \in 1..Len(unmatched) |-> DeterministicRow(unmatched[k], accounts)]))

\* lines 427-434: the match records that carry an original_index
FinalMatches(email_matches, fuzzy_frame, deterministic) ==
    email_matches \o fuzzy_frame \o deterministic

\* line 436 with the match records on the left of the join: the matched rows
\* in the order of the stages, the rows without a match after them
OutputDfStageOrder(list, final_matches) ==
    [k \in 1..Len(final_matches) |->
        [original_index |-> final_matches[k].original_index,
         cells |-> list[final_matches[k].original_index],
         matched_accountid |-> final_matches[k].matched_accountid,
         match_score |-> final_matches[k].match_score,
         match_type |-> final_matches[k].match_type,
         matched_company_name |-> final_matches[k].matched_company_name]]
    \o SelectSeq([i \in 1..Len(list) |->
                    [original_index |-> i, cells |-> list[i],
                     matched_accountid |-> NA, match_score |-> NoScore,
                     match_type |-> NA, matched_company_name |-> NA]],
                 LAMBDA r : r.original_index \notin IndexSet(final_matches))

\* line 436: the left join of the original rows with the match records
OutputDf(list, final_matches) ==
    Flatten([i \in 1..Len(list) |->
       LET hits == SelectSeq(final_matches, LAMBDA m : m.original_index = i)
       IN IF hits = <<>>
          THEN << [original_index |-> i, cells |-> list[i],
                   matched_accountid |-> NA, match_score |-> NoScore,
                   match_type |-> NA, matched_company_name |-> NA] >>
          ELSE [h \in 1..Len(hits) |->
                   [original_index |-> i, cells |-> list[i],
                    matched_accountid |-> hits[h].matched_accountid,
                    match_score |-> hits[h].match_score,
                    match_type |-> hits[h].match_type,
                    matched_company_name |-> hits[h].matched_company_name]]])

\* lines 450-454 without the isin filter
ManualReviewDfAll(list, final_matches) ==
    [i \in 1..Len(list) |-> [original_index |-> i, cells |-> list[i]]]

\* lines 450-454: the rows for manual review
ManualReviewDf(list, final_matches) ==
    SelectSeq([i \in 1..Len(list) |-> [original_index |-> i, cells |-> list[i]]],
              LAMBDA r : r.original_index \notin IndexSet(final_matches))

\* the rows of a frame as save_to_excel writes them, original_index dropped
Written(frame) == [k \in 1..Len(frame) |-> frame[k].cells]

----------------------------------------------------------------------------
(* ContactScrubber: the scorer and the stages of run (lines 465-580)       *)

\* [Scoring_Contact] and minimum_contact_score of the configuration of
\* tests/test_scrubbing_smoke.py
contact_email == 50
contact_first_name == 20
contact_last_name == 20
contact_title == 10
minimum_contact_score == 40

ContactSettingsOf(t) ==
    [minimum_contact_score |-> t, email |-> contact_email,
     first_name |-> contact_first_name, last_name |-> contact_last_name,
     title |-> contact_title]

\* scrub_row.get(column, default): the cell, or the default when the
\* workbook has no such column
RowGet(columns, row, column, default) ==
    IF column \in columns THEN row[column] ELSE default

\* f"{x:.1f}" for x = v / 100 >= 0
Fmt1(v) ==
    Bind(RoundDiv(v, 10), LAMBDA tenths :
        ToString(tenths \div 10) \o "." \o ToString(tenths % 10))

\* lines 481-484; a row without an email column gives None, which is falsy
ContactEmailPart(w, columns, scrub_row, db_row) ==
    Bind(RowGet(columns, scrub_row, "email", ""), LAMBDA e :
        IF Truthy(e) /\ PyEq(e, db_row.email)
        THEN <<100 * w.email, <<"Email(" \o ToString(w.email) \o ")">>>>
        ELSE NoSignal)

\* lines 486-502: weight * (sim / 100.0), kept when above 0.1; v is the
\* contribution in hundredths
ContactFuzzyPart(label, v) ==
    IF v > 10 THEN <<v, <<label \o "(" \o Fmt1(v) \o ")">>>> ELSE NoSignal

\* a loop in which a later candidate of equal score replaces the best
ScoreBeatsOrTies(score, highest_score) == score >= highest_score

\* score > highest_score at line 548
ScoreBeats(score, highest_score) == score > highest_score

\* _score_candidate_contact: <<score in hundredths, details>>
ScoreCandidateContact(w, columns, scrub_row, db_row) ==
    Bind(<<ContactEmailPart(w, columns, scrub_row, db_row),
           ContactFuzzyPart("First",
               w.first_name * Ratio(RowGet(columns, scrub_row, "firstname", ""),
                                    db_row.firstname)),
           ContactFuzzyPart("Last",
               w.last_name * Ratio(RowGet(columns, scrub_row, "lastname", ""),
                                   db_row.lastname)),
           ContactFuzzyPart("Title",
               w.title * TokenSetRatio(RowGet(columns, scrub_row, "title", ""),
                                       db_row.title))>>,
         LAMBDA parts : <<SumParts(parts), JoinWith(CatParts(parts), ",")>>)

\* line 517: scrub_df["matched_accountid"].dropna().unique()
MatchedAccountIds(df) == {df[i].matched_accountid : i \in 1..Len(df)} \ {NA}

\* line 527: contacts_db[contacts_db["accountid"].isin(matched_account_ids)]
CandidateContacts(contacts, ids) == SelectSeq(contacts, LAMBDA c : c.accountid \in ids)

\* a lookup that hands out the contacts of every matched account
ContactsOfAnyAccount(candidate_contacts, account_id) == candidate_contacts

\* line 533 and 541: contacts_by_account.get(account_id, []), the contacts of
\* the account in the order of the export
ContactsByAccount(candidate_contacts, account_id) ==
    SelectSeq(candidate_contacts, LAMBDA c : c.accountid = account_id)

\* line 537
RecordsToMatch(df) == SelectSeq(df, LAMBDA r : r.matched_accountid # NA)

\* lines 544-545: best_candidate_details = None, highest_score = -1
ContactLoopStart == [highest_score |-> 0 - 100, best_candidate_details |-> None]

\* lines 550-560
BestCandidateDetails(scrub_row, candidate_row, scored) ==
    [original_index |-> scrub_row.original_index,
     Matched_ContactID |-> candidate_row.id,
     Matched_FirstName |-> candidate_row.firstname,
     Matched_LastName |-> candidate_row.lastname,
     Matched_Title |-> candidate_row.title,
     Matched_Email |-> candidate_row.email,
     Matched_ContactPhone |-> candidate_row.phone,
     ContactMatchScore |-> scored[1],
     ContactMatchType |-> scored[2]]

RECURSIVE ContactLoop(_, _, _, _, _, _)
\* lines 547-562: the candidates from position k on, acc the loop's state
ContactLoop(w, columns, scrub_row, candidates, k, acc) ==
    IF k > Len(candidates) THEN acc
    ELSE Bind(ScoreCandidateContact(w, columns, scrub_row, candidates[k]), LAMBDA scored :
            ContactLoop(w, columns, scrub_row, candidates, k + 1,
                IF ScoreBeats(scored[1], acc.highest_score)
                THEN [highest_score |-> scored[1],
                      best_candidate_details |->
                          BestCandidateDetails(scrub_row, candidates[k], scored)]
                ELSE acc))

\* lines 539-565: what one row of records_to_match appends to all_best_matches
ContactRow(st, columns, scrub_row, candidates) ==
    IF candidates = <<>> THEN <<>>
    ELSE Bind(ContactLoop(st, columns, scrub_row, candidates, 1, ContactLoopStart),
              LAMBDA final :
                 IF /\ final.highest_score >= 100 * st.minimum_contact_score
                    /\ final.best_candidate_details # None
                 THEN <<final.best_candidate_details>>
                 ELSE <<>>)

\* the columns the merge at line 572 adds
MatchedColumns ==
    <<"Matched_ContactID", "Matched_FirstName", "Matched_LastName", "Matched_Title",
      "Matched_Email", "Matched_ContactPhone", "ContactMatchScore", "ContactMatchType">>

\* a row of the left join without a partner: NaN in every added column
NoContactMatch ==
    [Matched_ContactID |-> NA, Matched_FirstName |-> NA, Matched_LastName |-> NA,
     Matched_Title |-> NA, Matched_Email |-> NA, Matched_ContactPhone |-> NA,
     ContactMatchScore |-> NoScore, ContactMatchType |-> NA]

\* drop(columns=["original_index"])
DropIndex(row) == [f \in DOMAIN row \ {"original_index"} |-> row[f]]

\* lines 520 and 529: the input is saved as it was read
SavedUnchanged(df) ==
    [written |-> TRUE, added |-> <<>>, rows |-> [i \in 1..Len(df) |-> DropIndex(df[i])]]

\* lines 570-577: pd.merge(scrub_df, matches_df, on="original_index",
\* how="left") when there is a match, scrub_df otherwise
ContactResults(df, matches) ==
    IF matches = <<>> THEN SavedUnchanged(df)
    ELSE [written |-> TRUE, added |-> MatchedColumns,
          rows |-> [i \in 1..Len(df) |->
              Bind(SelectSeq(matches, LAMBDA m : m.original_index = df[i].original_index),
                   LAMBDA own :
                      DropIndex(df[i]) @@
                      (IF own = <<>> THEN NoContactMatch ELSE DropIndex(own[1])))]]

\* no <name>_C_OUTPUT.xlsx yet
NoFile == [written |-> FALSE, added |-> <<>>, rows |-> <<>>]

----------------------------------------------------------------------------
(* settings.py: load_settings on a configuration and a file system         *)

\* the value of a text of digits, most significant digit first
RECURSIVE DigitsValue(_, _)
DigitsValue(text, acc) ==
    IF text = "" THEN acc
    ELSE DigitsValue(Tail(text),
                     10 * acc + (CHOOSE v \in 0..9 : Char(DigitChars, v + 1) = Head(text)))

AllDigits(text) == \A i \in 1..Len(text) : IsDigit(Char(text, i))

\* float(text) for the decimal texts [-]digits[.digits]: ok and the value in
\* hundredths (digits past the second decimal are dropped), or not ok, where
\* float raises ValueError; exponents, inf and nan are not among the texts
\* of the configurations here
ParseFloat(text) ==
    Bind(Strip(text), LAMBDA stripped :
        Bind2(StartsWith(stripped, "-"),
              IF StartsWith(stripped, "-") THEN From(stripped, 2) ELSE stripped,
              LAMBDA negative, body :
                 Bind2(BeforeFirst(body, "."),
                       IF IndexOf(body, ".") = 0 THEN ""
                       ELSE From(body, IndexOf(body, ".") + 1),
                       LAMBDA whole, frac :
                          IF AllDigits(whole) /\ AllDigits(frac) /\ whole \o frac # ""
                          THEN [ok |-> TRUE,
                                value |-> (IF negative THEN 0 - 1 ELSE 1) *
                                          (100 * DigitsValue(whole, 0) +
                                           DigitsValue(SubSeq(frac \o "00", 1, 2), 0))]
                          ELSE [ok |-> FALSE, value |-> 0])))

\* the process's home and working directory
Home == "/home/user"
Cwd == "/work"

\* _resolve_path: expanduser, then resolve against the working directory
\* (the paths here hold no "..", "." or symbolic link)
ResolvePath(raw_path) ==
    IF StartsWith(raw_path, "~/") THEN Home \o From(raw_path, 2)
    ELSE IF StartsWith(raw_path, "/") THEN raw_path
    ELSE Cwd \o "/" \o raw_path

\* the keys of the sections, in the order the code reads them
PathKeys ==
    <<"input_directory", "output_directory", "account_list_path", "contact_list_path">>

ThresholdKeys == <<"minimum_final_score", "minimum_contact_score">>

WeightKeys ==
    <<"company_name", "website", "phone", "street", "postal_code", "city", "primary_lob">>

PenaltyKeys == <<"location_mismatch_penalty", "conflicting_website_penalty">>

ContactKeys == <<"email", "first_name", "last_name", "title">>

\* a check of existence that takes in output_directory as well
PathsWithOutput ==
    <<"input_directory", "output_directory", "account_list_path", "contact_list_path">>

\* lines 97-101: the paths that must exist
RequiredPaths == <<"input_directory", "account_list_path", "contact_list_path">>

HasSection(config, section) == section \in DOMAIN config

HasOption(config, section, option) ==
    HasSection(config, section) /\ option \in DOMAIN config[section]

\* raise: the exception's type and the section and keys its message names
Raise(kind, section, keys) ==
    [status |-> "raised", kind |-> kind, section |-> section, keys |-> keys]

Passed == [status |-> "passed"]

\* _require_section
RequireSection(config, section, keys) ==
    IF ~HasSection(config, section) THEN Raise("ValueError", section, {})
    ELSE Bind({k \in SeqToSet(keys) : ~HasOption(config, section, k)}, LAMBDA missing :
            IF missing # {} THEN Raise("ValueError", section, missing) ELSE Passed)

\* default=None of _get_float, and default=0
NoDefault == <<>>
DefaultZero == <<0>>

\* _get_float
GetFloat(config, section, option, default) ==
    IF ~HasOption(config, section, option)
    THEN (IF default = NoDefault THEN Raise("ValueError", section, {option})
          ELSE [status |-> "passed", value |-> 100 * default[1]])
    ELSE Bind(ParseFloat(config[section][option]), LAMBDA parsed :
            IF parsed.ok THEN [status |-> "passed", value |-> parsed.value]
            ELSE Raise("ValueError", section, {option}))

\* the keyword arguments of a dataclass, evaluated in order: the first
\* exception, or the values by key
GetFloats(config, section, keys, default) ==
    Bind([i \in 1..Len(keys) |-> GetFloat(config, section, keys[i], default)],
         LAMBDA got :
            IF \E i \in 1..Len(keys) : got[i].status = "raised"
            THEN got[CHOOSE i \in 1..Len(keys) :
                        /\ got[i].status = "raised"
                        /\ \A j \in 1..(i - 1) : got[j].status = "passed"]
            ELSE [status |-> "passed",
                  values |-> [k \in SeqToSet(keys) |->
                                 got[CHOOSE i \in 1..Len(keys) : keys[i] = k].value]])

\* Penalties() and ContactWeights(): every field 0.0
Defaults(keys) == [status |-> "passed", values |-> [k \in SeqToSet(keys) |-> 0]]

\* lines 90-95
ResolvedPaths(config) ==
    [k \in SeqToSet(PathKeys) |-> ResolvePath(config["Paths"][k])]

\* a configuration file that cannot be read
Unreadable == [unreadable |-> TRUE]

\* lines 107-154, once the paths are done
LoadScores(config, paths) ==
    Bind(RequireSection(config, "Fuzzy_Matching_Thresholds", ThresholdKeys), LAMBDA r1 :
     IF r1.status = "raised" THEN r1 ELSE
     Bind(GetFloats(config, "Fuzzy_Matching_Thresholds", ThresholdKeys, NoDefault), LAMBDA thresholds :
      IF thresholds.status = "raised" THEN thresholds ELSE
      Bind(RequireSection(config, "Scoring_Weights", WeightKeys), LAMBDA r2 :
       IF r2.status = "raised" THEN r2 ELSE
       Bind(GetFloats(config, "Scoring_Weights", WeightKeys, NoDefault), LAMBDA weights :
        IF weights.status = "raised" THEN weights ELSE
        Bind(IF HasSection(config, "Scoring_Penalties")
             THEN GetFloats(config, "Scoring_Penalties", PenaltyKeys, DefaultZero)
             ELSE Defaults(PenaltyKeys), LAMBDA penalties :
         IF penalties.status = "raised" THEN penalties ELSE
         Bind(IF HasSection(config, "Scoring_Contact")
              THEN GetFloats(config, "Scoring_Contact", ContactKeys, DefaultZero)
              ELSE Defaults(ContactKeys), LAMBDA contact_weights :
          IF contact_weights.status = "raised" THEN contact_weights ELSE
          [status |-> "returned",
           settings |-> [paths |-> paths,
                         thresholds |-> thresholds.values,
                         weights |-> weights.values,
                         penalties |-> penalties.values,
                         contact_weights |-> contact_weights.values]]))))))

\* lines 81-103: whether the call gets as far as the mkdir of line 105
ReachesMkdir(config, files) ==
    /\ config # Unreadable
    /\ RequireSection(config, "Paths", PathKeys).status = "passed"
    /\ \A k \in SeqToSet(RequiredPaths) : ResolvedPaths(config)[k] \in files

\* load_settings: what the call returns or raises
LoadSettings(config, files) ==
    IF config = Unreadable THEN Raise("FileNotFoundError", "", {})
    ELSE Bind(RequireSection(config, "Paths", PathKeys), LAMBDA r :
        IF r.status = "raised" THEN r
        ELSE Bind(ResolvedPaths(config), LAMBDA paths :
            Bind(SelectSeq(RequiredPaths, LAMBDA k : paths[k] \notin files), LAMBDA absent :
                IF absent # <<>> THEN Raise("FileNotFoundError", "Paths", {absent[1]})
                ELSE LoadScores(config, paths))))

----------------------------------------------------------------------------
(* The state                                                               *)

VARIABLES
    input_list,          \* the rows of <name>.xlsx
    input_has_email,     \* whether <name>.xlsx has an email column
    reference,           \* the account export and the contact export
    settings,            \* the loaded Settings
    pc,                  \* where the run is
    scrub_df,            \* the normalised input rows
    accounts_df,         \* the normalised account rows
    email_matches_final, \* Stage 1 output
    cursor,              \* the row of fuzzy_search_df the Stage 2 loop is at
    all_fuzzy_matches,   \* the list the Stage 2 loop appends to
    fuzzy_matches_df,    \* Stage 2 output, the rows with match columns
    deterministic_df,    \* Stage 3 output
    output_df,           \* the rows written to <name>_OUTPUT.xlsx
    unmatched_df,        \* the rows the run has for manual review
    manual_review_file,  \* the rows of <name>_MANUAL_REVIEW.xlsx on disk
    tfidf_matrix,        \* the search strings the matrix in use was fitted on
    error,               \* the exception that ended the run, "none" otherwise
    cache,               \* the entries of <output_directory>/_cache
    faults,              \* the cache operations that fail in this environment
    contact_input,       \* the workbook the contact run reads: columns, rows
    contact_settings,    \* [Scoring_Contact] and minimum_contact_score
    c_pc,                \* where the contact run is
    c_scrub_df,          \* scrub_df of the contact run
    c_cursor,            \* the row of records_to_match the loop is at
    all_best_matches,    \* the list the contact loop appends to
    contact_output,      \* <name>_C_OUTPUT.xlsx
    config,              \* config.ini: section -> key -> text
    filesystem,          \* the paths that exist
    load_result,         \* what load_settings returned or raised
    candidate_indices,   \* the block of the Stage 2 loop's latest scored row
    top_indices          \* the accounts of that block in the order scored

vars == << input_list, input_has_email, reference, settings, pc, scrub_df,
           accounts_df, email_matches_final, cursor, all_fuzzy_matches,
           fuzzy_matches_df, deterministic_df, output_df, unmatched_df,
           manual_review_file, tfidf_matrix, error, cache, faults,
           contact_input, contact_settings, c_pc, c_scrub_df, c_cursor,
           all_best_matches, contact_output, config, filesystem, load_result,
           candidate_indices, top_indices >>

\* the contact run
contact_run == << contact_input, contact_settings, c_pc, c_scrub_df, c_cursor,
                  all_best_matches, contact_output >>

\* the call of load_settings
settings_call == << config, filesystem, load_result >>

\* what an account run does not touch
aside == << contact_run, settings_call >>

\* what the output directory holds between runs, and how it behaves
disk == << manual_review_file, cache, faults >>

given == << input_list, input_has_email, reference, settings >>

\* the locals of the Stage 2 loop that outlive a turn
blocking == << candidate_indices, top_indices >>

locals == << scrub_df, accounts_df, email_matches_final, cursor,
             all_fuzzy_matches, fuzzy_matches_df, deterministic_df,
             output_df, unmatched_df, tfidf_matrix, error, blocking >>

\* a run that has not started yet holds nothing
Fresh ==
    /\ pc = "load"
    /\ scrub_df = <<>>
    /\ accounts_df = <<>>
    /\ email_matches_final = <<>>
    /\ cursor = 1
    /\ all_fuzzy_matches = <<>>
    /\ fuzzy_matches_df = <<>>
    /\ deterministic_df = <<>>
    /\ output_df = <<>>
    /\ unmatched_df = <<>>
    /\ tfidf_matrix = <<>>
    /\ error = "none"
    /\ candidate_indices = <<>>
    /\ top_indices = <<>>

\* an output directory without a manual review file and without a cache, on
\* a file system where every cache operation succeeds
CleanDisk ==
    /\ manual_review_file = <<>>
    /\ cache = <<>>
    /\ faults = {}

\* no contact run is under way
NoContactRun ==
    /\ contact_input = [columns |-> {}, rows |-> <<>>]
    /\ contact_settings = ContactSettingsOf(minimum_contact_score)
    /\ c_pc = "idle"
    /\ c_scrub_df = <<>>
    /\ c_cursor = 1
    /\ all_best_matches = <<>>
    /\ contact_output = NoFile

\* the configuration of tests/test_settings.py, with an output directory of
\* its own
GoodConfig ==
    [Paths |-> [input_directory |-> "/data/lists", output_directory |-> "/data/out",
                account_list_path |-> "/data/account_list.xlsx",
                contact_list_path |-> "/data/contact_list.xlsx"],
     Fuzzy_Matching_Thresholds |->
         [minimum_final_score |-> "50", minimum_contact_score |-> "40"],
     Scoring_Weights |->
         [company_name |-> "50", website |-> "40", phone |-> "35", street |-> "25",
          postal_code |-> "15", city |-> "10", primary_lob |-> "10"],
     Scoring_Penalties |->
         [location_mismatch_penalty |-> "5", conflicting_website_penalty |-> "2"],
     Scoring_Contact |->
         [email |-> "50", first_name |-> "20", last_name |-> "20", title |-> "10"]]

\* load_settings has been called by main.py before any run; its call is not
\* followed here
SettingsLoaded ==
    /\ config = GoodConfig
    /\ filesystem = {ResolvePath(GoodConfig["Paths"][k]) : k \in DOMAIN GoodConfig["Paths"]}
    /\ load_result = LoadSettings(config, filesystem)

\* nothing but the account run is under way
Aside == NoContactRun /\ SettingsLoaded

Given(pool) ==
    /\ input_list \in InputLists(pool, MaxRows)
    /\ input_has_email \in BOOLEAN
    /\ reference \in References
    /\ settings \in {SettingsOf(t) : t \in Thresholds}

\* the first run starts in an output directory without a manual review file
Init ==
    /\ Given(InputPool)
    /\ Fresh
    /\ CleanDisk
    /\ Aside

\* lines 179-275
Load ==
    /\ pc = "load"
    /\ scrub_df' = LoadScrub(input_list)
    /\ accounts_df' = LoadAccounts(reference.accounts)
    /\ pc' = "email"
    /\ UNCHANGED << aside, blocking, given, disk, email_matches_final, cursor, all_fuzzy_matches,
                    fuzzy_matches_df, deterministic_df, output_df, unmatched_df,
                    tfidf_matrix, error >>

\* lines 277-311
EmailPivot ==
    /\ pc = "email"
    /\ email_matches_final' =
           EmailStage(scrub_df, input_has_email, reference.contacts, accounts_df)
    /\ cursor' = 1
    /\ pc' = "vectorizer"
    /\ UNCHANGED << aside, blocking, given, disk, scrub_df, accounts_df, all_fuzzy_matches,
                    fuzzy_matches_df, deterministic_df, output_df, unmatched_df,
                    tfidf_matrix, error >>

\* line 313, _get_vectorizer_and_matrix (lines 120-145): the directory is
\* made outside any try; a readable entry under the key is returned as it is;
\* otherwise the pair is fitted on the accounts and saved, a failed save
\* being a warning
GetVectorizerAndMatrix ==
    /\ pc = "vectorizer"
    /\ \E key \in {CacheKey(accounts_df)} :
          IF "mkdir" \in faults
          THEN /\ pc' = "failed"
               /\ error' = "OSError"
               /\ UNCHANGED << tfidf_matrix, cache >>
          ELSE IF key \in DOMAIN cache /\ "read" \notin faults
          THEN /\ tfidf_matrix' = cache[key]
               /\ pc' = "fuzzy"
               /\ UNCHANGED << error, cache >>
          ELSE /\ tfidf_matrix' = FitTransform(accounts_df)
               /\ cache' = IF "write" \in faults THEN cache
                           ELSE CachePut(cache, key, FitTransform(accounts_df))
               /\ pc' = "fuzzy"
               /\ UNCHANGED error
    /\ UNCHANGED << aside, blocking, given, manual_review_file, faults, scrub_df, accounts_df,
                    email_matches_final, cursor, all_fuzzy_matches,
                    fuzzy_matches_df, deterministic_df, output_df, unmatched_df >>

\* lines 317-368: one turn of the Stage 2 loop; tfidf_matrix[candidate_indices]
\* at line 342 raises IndexError when the matrix has fewer rows than a
\* candidate position; a row without a search string leaves the loop's
\* locals as they were
FuzzyMatchRow ==
    /\ pc = "fuzzy"
    /\ cursor <= Len(FuzzySearchDf(scrub_df, email_matches_final))
    /\ \E row \in {FuzzySearchDf(scrub_df, email_matches_final)[cursor]} :
          \E candidates \in {CandidateIndices(row, accounts_df)} :
             IF /\ SearchString(row) # ""
                /\ \E k \in 1..Len(candidates) : candidates[k] > Len(tfidf_matrix)
             THEN /\ pc' = "failed"
                  /\ error' = "IndexError"
                  /\ candidate_indices' = candidates
                  /\ UNCHANGED << all_fuzzy_matches, cursor, top_indices >>
             ELSE /\ \E order \in RankedOrders(candidates) :
                        /\ all_fuzzy_matches' = all_fuzzy_matches
                               \o FuzzyRow(settings, row, accounts_df, order)
                        /\ top_indices' =
                               IF SearchString(row) = "" THEN top_indices ELSE order
                  /\ candidate_indices' =
                         IF SearchString(row) = "" THEN candidate_indices ELSE candidates
                  /\ cursor' = cursor + 1
                  /\ UNCHANGED << pc, error >>
    /\ UNCHANGED << aside, given, disk, scrub_df, accounts_df, email_matches_final,
                    fuzzy_matches_df, deterministic_df, output_df, unmatched_df,
                    tfidf_matrix >>

\* line 370: the loop is over, the list becomes a frame, or the run dies
FuzzyMatchesFrame ==
    /\ pc = "fuzzy"
    /\ cursor > Len(FuzzySearchDf(scrub_df, email_matches_final))
    /\ fuzzy_matches_df' = IF FrameRaises(all_fuzzy_matches)
                           THEN fuzzy_matches_df
                           ELSE FuzzyFrame(all_fuzzy_matches)
    /\ pc' = IF FrameRaises(all_fuzzy_matches) THEN "failed" ELSE "deterministic"
    /\ error' = IF FrameRaises(all_fuzzy_matches) THEN "AttributeError" ELSE error
    /\ UNCHANGED << aside, blocking, given, disk, scrub_df, accounts_df, email_matches_final, cursor,
                    all_fuzzy_matches, deterministic_df, output_df, unmatched_df,
                    tfidf_matrix >>

\* lines 373-406
DeterministicFallback ==
    /\ pc = "deterministic"
    /\ deterministic_df' =
           DeterministicStage(UnmatchedDf(scrub_df, email_matches_final, fuzzy_matches_df),
                              accounts_df)
    /\ pc' = "finalize"
    /\ UNCHANGED << aside, blocking, given, disk, scrub_df, accounts_df, email_matches_final, cursor,
                    all_fuzzy_matches, fuzzy_matches_df, output_df, unmatched_df,
                    tfidf_matrix, error >>

\* lines 409-462: _OUTPUT is always written, _MANUAL_REVIEW only when the
\* run has rows for it
Finalize ==
    /\ pc = "finalize"
    /\ \E final_matches \in
             {FinalMatches(email_matches_final, fuzzy_matches_df, deterministic_df)} :
          \E unmatched \in {ManualReviewDf(input_list, final_matches)} :
             /\ output_df' = OutputDf(input_list, final_matches)
             /\ unmatched_df' = unmatched
             /\ manual_review_file' =
                    IF unmatched # <<>> THEN Written(unmatched) ELSE manual_review_file
    /\ pc' = "done"
    /\ UNCHANGED << aside, blocking, given, cache, faults, scrub_df, accounts_df, email_matches_final,
                    cursor, all_fuzzy_matches, fuzzy_matches_df, deterministic_df,
                    tfidf_matrix, error >>

Next ==
    \/ Load
    \/ EmailPivot
    \/ GetVectorizerAndMatrix
    \/ FuzzyMatchRow
    \/ FuzzyMatchesFrame
    \/ DeterministicFallback
    \/ Finalize

Spec == Init /\ [][Next]_vars

----------------------------------------------------------------------------
(* Run after run for one filename stem: the input list is replaced, the    *)
(* reference workbooks and the configuration stay, and so does whatever    *)
(* the output directory holds                                              *)

\* the rows of the input lists of the repeated runs
RunsPool == {InputAcme, InputQq}

InitRuns ==
    /\ Given(RunsPool)
    /\ Fresh
    /\ CleanDisk
    /\ Aside

\* main.py run_pipeline -> AccountScrubber(settings, file_name).run(), once
\* the run before has ended (or died)
NewRun ==
    /\ pc \in {"done", "failed"}
    /\ input_list' \in InputLists(RunsPool, MaxRows)
    /\ pc' = "load"
    /\ scrub_df' = <<>>
    /\ accounts_df' = <<>>
    /\ email_matches_final' = <<>>
    /\ cursor' = 1
    /\ all_fuzzy_matches' = <<>>
    /\ fuzzy_matches_df' = <<>>
    /\ deterministic_df' = <<>>
    /\ output_df' = <<>>
    /\ unmatched_df' = <<>>
    /\ tfidf_matrix' = <<>>
    /\ error' = "none"
    /\ candidate_indices' = <<>>
    /\ top_indices' = <<>>
    /\ UNCHANGED << aside, input_has_email, reference, settings, disk >>

NextRuns ==
    \/ Load
    \/ EmailPivot
    \/ GetVectorizerAndMatrix
    \/ FuzzyMatchRow
    \/ FuzzyMatchesFrame
    \/ DeterministicFallback
    \/ Finalize
    \/ NewRun

SpecRuns == InitRuns /\ [][NextRuns]_vars

----------------------------------------------------------------------------
(* The account run on input rows that reach every level of the blocker     *)

\* no postal code and no state among the accounts, the domain of one
InputDomainOnly ==
    [BlankCells EXCEPT !.company = "Zeta", !.state = "NY", !.postal = "99999",
                       !.website = "zeta.io"]
    @@ [email |-> NA]

\* nothing but a name and the phone of an account
InputPhoneOnly ==
    [BlankCells EXCEPT !.company = "Gamma", !.phone = "(555) 555-1234"]
    @@ [email |-> NA]

BlockPool == {InputAcme, InputZzzqx, InputDomainOnly, InputPhoneOnly, InputBlank,
              InputQq}

\* the account of the smoke test once more, under another id
AccountAcmeTwin == [AccountAcme EXCEPT !.account_id = "A009"]

BlockReferences ==
    References \cup {[accounts |-> <<AccountAcme, AccountAcmeTwin, AccountZeta>>,
                      contacts |-> <<ContactInfo>>]}

\* an input list without an email column: every row goes to Stage 2
InitBlock ==
    /\ input_list \in InputLists(BlockPool, MaxRows)
    /\ input_has_email = FALSE
    /\ reference \in BlockReferences
    /\ settings \in {SettingsOf(t) : t \in Thresholds}
    /\ Fresh
    /\ CleanDisk
    /\ Aside

SpecBlock == InitBlock /\ [][Next]_vars

\* runs whose rows Stage 2 matches under one threshold and not under another
ThresholdRows == {InputAcme, InputBlank, InputZzzqx, InputQq}

InitThreshold ==
    /\ Given(ThresholdRows)
    /\ Fresh
    /\ CleanDisk
    /\ Aside

SpecThreshold == InitThreshold /\ [][Next]_vars

\* runs over a single row, for what _score_candidate returns for it
InitScore ==
    /\ input_list \in {<<r>> : r \in BlockPool}
    /\ input_has_email = FALSE
    /\ reference \in BlockReferences
    /\ settings \in {SettingsOf(t) : t \in Thresholds}
    /\ Fresh
    /\ CleanDisk
    /\ Aside

SpecScore == InitScore /\ [][Next]_vars

----------------------------------------------------------------------------
(* The normalisers on their own: a table of raw rows is loaded and         *)
(* normalised, nothing else                                                *)

InitNorm ==
    /\ Given(NormPool)
    /\ Fresh
    /\ CleanDisk
    /\ Aside

NextNorm == Load

SpecNorm == InitNorm /\ [][NextNorm]_vars

----------------------------------------------------------------------------
(* Run after run over one output directory, and so over one _cache: the    *)
(* input list and the reference workbooks are replaced between runs, and   *)
(* the directory may refuse one of the cache operations                    *)

\* account rows whose search strings are "alpha alpha.io", "beta.io" and
\* "alpha alpha.io|beta.io"
AccountAlpha ==
    [BlankCells EXCEPT !.company = "Alpha Inc", !.website = "alpha.io"]
    @@ [account_id |-> "A010"]

AccountBetaSite ==
    [BlankCells EXCEPT !.company = "Inc.", !.website = "beta.io"]
    @@ [account_id |-> "A011"]

AccountPiped ==
    [BlankCells EXCEPT !.company = "Alpha", !.website = "alpha.io|beta.io"]
    @@ [account_id |-> "A012"]

CacheReferences ==
    { [accounts |-> <<AccountAlpha, AccountBetaSite>>, contacts |-> <<ContactInfo>>],
      [accounts |-> <<AccountPiped>>, contacts |-> <<ContactInfo>>],
      [accounts |-> <<AccountAcme, AccountZeta>>, contacts |-> <<ContactInfo>>] }

InputBetaSite ==
    [BlankCells EXCEPT !.company = "Beta", !.website = "beta.io"] @@ [email |-> NA]

CachePool == {InputBetaSite, InputAcme}

\* the operations on _cache that can fail: mkdir (line 123), open and
\* pickle.load (lines 130-131), open and pickle.dump (lines 140-141)
CacheOperations == {"mkdir", "read", "write"}

FaultSets == {{}} \cup {{op} : op \in CacheOperations}

InitCache ==
    /\ input_list \in InputLists(CachePool, MaxRows)
    /\ input_has_email = FALSE
    /\ reference \in CacheReferences
    /\ settings = SettingsOf(minimum_final_score)
    /\ Fresh
    /\ manual_review_file = <<>>
    /\ cache = <<>>
    /\ faults \in FaultSets
    /\ Aside

\* the next run over the same output directory, with its own workbooks
NewRunCache ==
    /\ pc \in {"done", "failed"}
    /\ input_list' \in InputLists(CachePool, MaxRows)
    /\ reference' \in CacheReferences
    /\ pc' = "load"
    /\ scrub_df' = <<>>
    /\ accounts_df' = <<>>
    /\ email_matches_final' = <<>>
    /\ cursor' = 1
    /\ all_fuzzy_matches' = <<>>
    /\ fuzzy_matches_df' = <<>>
    /\ deterministic_df' = <<>>
    /\ output_df' = <<>>
    /\ unmatched_df' = <<>>
    /\ tfidf_matrix' = <<>>
    /\ error' = "none"
    /\ candidate_indices' = <<>>
    /\ top_indices' = <<>>
    /\ UNCHANGED << aside, input_has_email, settings, disk >>

NextCache ==
    \/ Load
    \/ EmailPivot
    \/ GetVectorizerAndMatrix
    \/ FuzzyMatchRow
    \/ FuzzyMatchesFrame
    \/ DeterministicFallback
    \/ Finalize
    \/ NewRunCache

SpecCache == InitCache /\ [][NextCache]_vars

----------------------------------------------------------------------------
(* ContactScrubber(settings, filename).run() on a workbook of the output   *)
(* directory, after the account run that wrote it                          *)

\* rows of the contact export with the columns the contact scorer reads
ContactJane ==
    [id |-> "c1", email |-> "info@acme.com", accountid |-> "A001",
     firstname |-> "Jane", lastname |-> "Doe", title |-> "VP",
     phone |-> "5555551234"]

ContactJanet ==
    [id |-> "c2", email |-> "janet@acme.com", accountid |-> "A001",
     firstname |-> "Janet", lastname |-> "Doe", title |-> "VP Sales",
     phone |-> NA]

\* scores like ContactJane against every row
ContactTwin ==
    [id |-> "c3", email |-> "info@acme.com", accountid |-> "A001",
     firstname |-> "Jane", lastname |-> "Doe", title |-> "VP",
     phone |-> NA]

ContactZed ==
    [id |-> "c4", email |-> NA, accountid |-> "A002",
     firstname |-> "Zed", lastname |-> "Zulu", title |-> "CEO", phone |-> NA]

ContactOrphan ==
    [id |-> "c5", email |-> "ghost@x.org", accountid |-> "A404",
     firstname |-> "Gus", lastname |-> "Ghost", title |-> "CFO", phone |-> NA]

ContactExports ==
    { <<ContactJane>>,
      <<ContactJanet, ContactJane, ContactTwin, ContactZed>>,
      <<ContactTwin, ContactZed, ContactJane, ContactJanet>>,
      <<ContactOrphan>> }

\* rows of <name>_OUTPUT.xlsx, by the columns the contact run reads; the
\* name and title cells count only in a workbook that has those columns
OutputInfo ==
    [email |-> "info@acme.com", firstname |-> "Jane", lastname |-> "Doe",
     title |-> "VP", matched_accountid |-> "A001"]

OutputJan ==
    [email |-> NA, firstname |-> "Jan", lastname |-> "Dow", title |-> "Intern",
     matched_accountid |-> "A001"]

OutputJanet ==
    [email |-> "janet@acme.com", firstname |-> "Janet", lastname |-> "Doe",
     title |-> "Sales VP", matched_accountid |-> "A001"]

OutputZed ==
    [email |-> "zed@zeta.io", firstname |-> "Zed", lastname |-> "Zulu",
     title |-> "CEO", matched_accountid |-> "A002"]

OutputUnmatched ==
    [email |-> "info@acme.com", firstname |-> "Jane", lastname |-> "Doe",
     title |-> "VP", matched_accountid |-> NA]

OutputElsewhere ==
    [email |-> NA, firstname |-> "Gus", lastname |-> "Ghost", title |-> "CFO",
     matched_accountid |-> "A999"]

\* a row resolved to one account whose email is that of a contact of another
OutputMisfiled ==
    [email |-> "info@acme.com", firstname |-> "Jane", lastname |-> "Doe",
     title |-> "VP", matched_accountid |-> "A002"]

OutputPool == {OutputInfo, OutputJan, OutputJanet, OutputZed, OutputUnmatched,
               OutputElsewhere, OutputMisfiled}

\* the optional columns of the workbook: those of the smoke test's input
\* (email only), or names and title as well
OutputColumns == {{"email"}, {"email", "firstname", "lastname", "title"}}

\* a row of a workbook that has these optional columns
WithColumns(row, cols) == [f \in cols \cup {"matched_accountid"} |-> row[f]]

\* the account run is over, with any of the workbooks above in place
InitContact ==
    /\ input_list = <<InputAcme>>
    /\ input_has_email = TRUE
    /\ reference \in {[accounts |-> <<AccountAcme, AccountZeta>>, contacts |-> c] :
                         c \in ContactExports}
    /\ settings = SettingsOf(minimum_final_score)
    /\ pc = "done"
    /\ scrub_df = <<>>
    /\ accounts_df = <<>>
    /\ email_matches_final = <<>>
    /\ cursor = 1
    /\ all_fuzzy_matches = <<>>
    /\ fuzzy_matches_df = <<>>
    /\ deterministic_df = <<>>
    /\ output_df = <<>>
    /\ unmatched_df = <<>>
    /\ tfidf_matrix = <<>>
    /\ error = "none"
    /\ candidate_indices = <<>>
    /\ top_indices = <<>>
    /\ CleanDisk
    /\ contact_input \in {[columns |-> cols,
                              rows |-> [i \in 1..Len(rows) |-> WithColumns(rows[i], cols)]] :
                             cols \in OutputColumns,
                             rows \in InputLists(OutputPool, MaxRows)}
    /\ contact_settings = ContactSettingsOf(minimum_contact_score)
    /\ c_pc = "load"
    /\ c_scrub_df = <<>>
    /\ c_cursor = 1
    /\ all_best_matches = <<>>
    /\ contact_output = NoFile
    /\ SettingsLoaded

\* the account run, as a contact run leaves it
account_run == << given, pc, locals, disk, settings_call >>

\* lines 511-533: load, and leave early when no row has an account or no
\* contact belongs to one
ContactLoad ==
    /\ c_pc = "load"
    /\ \E df \in {[i \in 1..Len(contact_input.rows) |->
                      contact_input.rows[i] @@ [original_index |-> i]]} :
          /\ c_scrub_df' = df
          /\ IF \/ MatchedAccountIds(df) = {}
                \/ CandidateContacts(reference.contacts, MatchedAccountIds(df)) = <<>>
             THEN /\ contact_output' = SavedUnchanged(df)
                  /\ c_pc' = "done"
             ELSE /\ c_pc' = "score"
                  /\ UNCHANGED contact_output
    /\ UNCHANGED << account_run, contact_input, contact_settings, c_cursor,
                    all_best_matches >>

\* lines 539-565: one turn of the loop over records_to_match
ContactScoreRow ==
    /\ c_pc = "score"
    /\ c_cursor <= Len(RecordsToMatch(c_scrub_df))
    /\ \E scrub_row \in {RecordsToMatch(c_scrub_df)[c_cursor]} :
          all_best_matches' = all_best_matches \o
              ContactRow(contact_settings, contact_input.columns, scrub_row,
                         ContactsByAccount(
                             CandidateContacts(reference.contacts,
                                               MatchedAccountIds(c_scrub_df)),
                             scrub_row.matched_accountid))
    /\ c_cursor' = c_cursor + 1
    /\ UNCHANGED << account_run, contact_input, contact_settings, c_pc, c_scrub_df,
                    contact_output >>

\* lines 569-577
ContactFinalize ==
    /\ c_pc = "score"
    /\ c_cursor > Len(RecordsToMatch(c_scrub_df))
    /\ contact_output' = ContactResults(c_scrub_df, all_best_matches)
    /\ c_pc' = "done"
    /\ UNCHANGED << account_run, contact_input, contact_settings, c_scrub_df,
                    c_cursor, all_best_matches >>

NextContact ==
    \/ ContactLoad
    \/ ContactScoreRow
    \/ ContactFinalize

SpecContact == InitContact /\ [][NextContact]_vars

----------------------------------------------------------------------------
(* load_settings(config_path) on its own                                   *)

DropSection(cfg, section) == [s \in DOMAIN cfg \ {section} |-> cfg[s]]

DropKey(cfg, section, key) ==
    [cfg EXCEPT ![section] = [k \in DOMAIN cfg[section] \ {key} |-> cfg[section][k]]]

SetKey(cfg, section, key, text) == [cfg EXCEPT ![section][key] = text]

\* the numeric sections and their keys
NumericKeys ==
    [Fuzzy_Matching_Thresholds |-> SeqToSet(ThresholdKeys),
     Scoring_Weights |-> SeqToSet(WeightKeys),
     Scoring_Penalties |-> SeqToSet(PenaltyKeys),
     Scoring_Contact |-> SeqToSet(ContactKeys)]

\* texts float() refuses, and one it takes
OddNumbers == {"abc", "", "2.5"}

\* the good configuration, and the same with one section gone, one key
\* gone, one number replaced, or one path written another way
Configs ==
    {GoodConfig, Unreadable}
    \cup {DropSection(GoodConfig, s) : s \in DOMAIN GoodConfig}
    \cup UNION {{DropKey(GoodConfig, s, k) : k \in DOMAIN GoodConfig[s]} :
                   s \in DOMAIN GoodConfig}
    \cup UNION {{SetKey(GoodConfig, s, k, "abc") : k \in NumericKeys[s]} :
                   s \in DOMAIN NumericKeys}
    \cup {SetKey(GoodConfig, "Scoring_Weights", "phone", t) : t \in OddNumbers}
    \cup {SetKey(GoodConfig, "Paths", "input_directory", "lists"),
          SetKey(GoodConfig, "Paths", "output_directory", "~/out"),
          DropKey(SetKey(GoodConfig, "Paths", "output_directory", "~/out"),
                  "Scoring_Penalties", "location_mismatch_penalty")}

\* the paths that may exist before the call
PathPool ==
    {"/data/lists", "/data/out", "/data/account_list.xlsx", "/data/contact_list.xlsx",
     "/work/lists"}

NotLoaded == [status |-> "pending"]

InitSettings ==
    /\ input_list = <<InputAcme>>
    /\ input_has_email = TRUE
    /\ reference = [accounts |-> <<AccountAcme>>, contacts |-> <<ContactInfo>>]
    /\ settings = SettingsOf(minimum_final_score)
    /\ Fresh
    /\ CleanDisk
    /\ NoContactRun
    /\ config \in Configs
    /\ filesystem \in SUBSET PathPool
    /\ load_result = NotLoaded

\* main.py: settings = load_settings(args.config); the mkdir of line 105
\* happens before the numeric sections are read
CallLoadSettings ==
    /\ load_result = NotLoaded
    /\ load_result' = LoadSettings(config, filesystem)
    /\ filesystem' = IF ReachesMkdir(config, filesystem)
                     THEN filesystem \cup {ResolvedPaths(config)["output_directory"]}
                     ELSE filesystem
    /\ UNCHANGED << given, pc, locals, disk, contact_run, config >>

NextSettings == CallLoadSettings

SpecSettings == InitSettings /\ [][NextSettings]_vars

----------------------------------------------------------------------------
(* The vocabulary of the properties                                        *)

\* the positions (original_index) of the input rows
InputRows == 1..Len(input_list)

\* the places of input row i in _OUTPUT
OutputRowsOf(i) == {k \in 1..Len(output_df) : output_df[k].original_index = i}

RowInOutput(i) == OutputRowsOf(i) # {}

\* the row has a match record joined to it in _OUTPUT
RowCarriesMatch(i) == \E k \in OutputRowsOf(i) : output_df[k].match_type # NA

\* the row is among those the run has for _MANUAL_REVIEW
RowForManualReview(i) == i \in IndexSet(unmatched_df)

SetMax(S) == CHOOSE m \in S : \A x \in S : x <= m

\* the highest score among the candidates of a row, in hundredths
HighestScore(st, row, accounts) ==
    SetMax({ScoreCandidate(st, row, accounts[j])[1] :
               j \in SeqToSet(CandidateIndices(row, accounts))})

\* the first position, in reference order, of an account whose column holds
\* key; 0 when there is none
FirstAccountWith(column, key) ==
    LET S == {j \in 1..Len(accounts_df) : accounts_df[j][column] = key}
    IN IF S = {} THEN 0 ELSE CHOOSE j \in S : \A h \in S : j <= h

\* the match records Stage 3 has for input row i
DeterministicRecordsOf(i) ==
    {k \in 1..Len(deterministic_df) : deterministic_df[k].original_index = i}

\* success of each strategy for input row i, each judged on its own
EmailSucceeds(i) ==
    /\ input_has_email
    /\ \E k \in 1..Len(reference.contacts) :
          AsStr(reference.contacts[k].email) = AsStr(input_list[i].email)

FuzzySucceeds(i) ==
    /\ SearchString(scrub_df[i]) # ""
    /\ HighestScore(settings, scrub_df[i], accounts_df) >= 100 * settings.minimum_final_score

CcnSucceeds(i) ==
    /\ scrub_df[i].normalizedccn # ""
    /\ FirstAccountWith("normalizedccn", scrub_df[i].normalizedccn) # 0

DhcSucceeds(i) ==
    /\ scrub_df[i].normalizeddhc # ""
    /\ FirstAccountWith("normalizeddhc", scrub_df[i].normalizeddhc) # 0

\* the first strategy that succeeds for input row i
FirstStrategy(i) ==
    IF EmailSucceeds(i) THEN "email"
    ELSE IF FuzzySucceeds(i) THEN "fuzzy"
    ELSE IF CcnSucceeds(i) THEN "ccn"
    ELSE IF DhcSucceeds(i) THEN "dhc"
    ELSE "none"

\* the strategy a match_type cell of _OUTPUT tells of; a fuzzy match has its
\* score details there
StrategyOf(match_type) ==
    IF match_type = NA THEN "none"
    ELSE IF match_type = "Email Match" THEN "email"
    ELSE IF match_type = "CCN Match" THEN "ccn"
    ELSE IF match_type = "DHC Match" THEN "dhc"
    ELSE "fuzzy"

\* the input rows that have a match at the end of a whole run under the
\* threshold t (lines 175-462; no row has one when line 370 raises); which
\* rows have a match does not depend on the order of the ranking
MatchedUnder(list, has_email, ref, t) ==
    LET scrub == LoadScrub(list)
        accounts == LoadAccounts(ref.accounts)
        email == EmailStage(scrub, has_email, ref.contacts, accounts)
        search == FuzzySearchDf(scrub, email)
        fuzzy_list == Flatten([k \in 1..Len(search) |->
                         FuzzyRow(SettingsOf(t), search[k], accounts,
                                  CandidateIndices(search[k], accounts))])
        frame == FuzzyFrame(fuzzy_list)
        deterministic == DeterministicStage(UnmatchedDf(scrub, email, frame), accounts)
    IN IF FrameRaises(fuzzy_list) THEN {}
       ELSE IndexSet(FinalMatches(email, frame, deterministic))

\* the signals of _score_candidate, the raw column each one comes from, and
\* what each contributes
Signals == {"name", "website", "phone", "street", "city", "postal", "lob",
            "country", "state"}

RawColumn(signal) == IF signal = "name" THEN "company" ELSE signal

SignalPart(signal, st, q, c) ==
    CASE signal = "name" -> NamePart(st, q, c)
      [] signal = "website" -> WebsitePart(st, q, c)
      [] signal = "phone" -> PhonePart(st, q, c)
      [] signal = "street" -> StreetPart(st, q, c)
      [] signal = "city" -> CityPart(st, q, c)
      [] signal = "postal" -> PostalPart(st, q, c)
      [] signal = "lob" -> LobPart(st, q, c)
      [] signal = "country" -> CountryPart(st, q, c)
      [] signal = "state" -> StatePart(st, q, c)

\* the cells of the input rows of the run that no stage has a record for
RowsWithoutMatch ==
    Written(SelectSeq([i \in 1..Len(input_list) |->
                          [original_index |-> i, cells |-> input_list[i]]],
                      LAMBDA r : r.original_index \notin
                          (IndexSet(email_matches_final) \cup IndexSet(fuzzy_matches_df)
                           \cup IndexSet(deterministic_df))))

----------------------------------------------------------------------------
(* The properties                                                          *)

\* C1, as the specification words it: after a completed run every input row
\* is in exactly one of _OUTPUT and _MANUAL_REVIEW, never in both and never
\* in neither.
C1_ExactlyOneOutput ==
    pc = "done" => \A i \in InputRows : RowInOutput(i) # RowForManualReview(i)

\* C1, as the run does it: after a completed run every input row is in
\* _OUTPUT; the rows the run has for _MANUAL_REVIEW are exactly the rows
\* whose _OUTPUT row carries no match, and when there is such a row the
\* file written holds exactly them.
C1_Conservation ==
    pc = "done" =>
        /\ \A i \in InputRows :
              /\ RowInOutput(i)
              /\ RowForManualReview(i) <=> ~RowCarriesMatch(i)
        /\ unmatched_df # <<>> => manual_review_file = Written(unmatched_df)

\* a completed run of a list with a matched row and an unmatched row
C1_Witness ==
    /\ pc = "done"
    /\ \E i, j \in InputRows : RowCarriesMatch(i) /\ RowForManualReview(j)

\* C2: no original_index is in the output of more than one of the three
\* stages (email pivot, fuzzy match, deterministic fallback).
C2_StagesDisjoint ==
    /\ IndexSet(email_matches_final) \cap IndexSet(fuzzy_matches_df) = {}
    /\ IndexSet(email_matches_final) \cap IndexSet(deterministic_df) = {}
    /\ IndexSet(fuzzy_matches_df) \cap IndexSet(deterministic_df) = {}

\* a completed run in which Stage 2 matched one row and Stage 3 another, the
\* row of Stage 2 having an identifier that an account carries
C2_Witness ==
    /\ pc = "done"
    /\ deterministic_df # <<>>
    /\ \E i \in IndexSet(fuzzy_matches_df) : CcnSucceeds(i) \/ DhcSucceeds(i)

\* C3: for every input row the match written is the result of the first
\* strategy that succeeds, in the order email pivot, fuzzy match, CCN
\* lookup, DHC lookup; a later strategy neither replaces nor adds to it.
C3_StagePrecedence ==
    pc = "done" =>
        \A i \in InputRows : \A k \in OutputRowsOf(i) :
            StrategyOf(output_df[k].match_type) = FirstStrategy(i)

\* C4: for every input row whose email is the email of a reference contact,
\* Stage 1 emits a record with score 100 and type "Email Match" whose
\* matched_accountid is the accountid of the first contact with that email;
\* when the account reference has that account, _OUTPUT carries the id.
C4_EmailPivot ==
    pc \notin {"load", "email"} =>
        \A i \in InputRows :
            LET hits == {k \in 1..Len(reference.contacts) :
                            /\ reference.contacts[k].email # NA
                            /\ reference.contacts[k].email = input_list[i].email}
                first == CHOOSE k \in hits : \A h \in hits : k <= h
                id == reference.contacts[first].accountid
            IN (input_has_email /\ hits # {}) =>
                  /\ \E m \in 1..Len(email_matches_final) :
                        /\ email_matches_final[m].original_index = i
                        /\ email_matches_final[m].match_score = 10000
                        /\ email_matches_final[m].match_type = "Email Match"
                        /\ email_matches_final[m].matched_accountid = id
                  /\ (pc = "done" /\ \E j \in 1..Len(accounts_df) :
                                         accounts_df[j].account_id = id)
                        => \E k \in OutputRowsOf(i) : output_df[k].matched_accountid = id

\* C5: for a row Stage 2 scans that has a search string, a record is emitted
\* exactly when the highest score among the candidates reaches
\* minimum_final_score, and the record is a candidate account with that
\* score.
C5_Stage2Emission ==
    [][(pc = "fuzzy" /\ cursor' = cursor + 1) =>
          LET row == FuzzySearchDf(scrub_df, email_matches_final)[cursor]
              emitted == SubSeq(all_fuzzy_matches', Len(all_fuzzy_matches) + 1,
                                Len(all_fuzzy_matches'))
              highest == HighestScore(settings, row, accounts_df)
          IN SearchString(row) # "" =>
                /\ emitted # <<>> <=> highest >= 100 * settings.minimum_final_score
                /\ emitted # <<>> =>
                      /\ Len(emitted) = 1
                      /\ emitted[1] # None
                      /\ emitted[1].original_index = row.original_index
                      /\ emitted[1].match_score = highest
                      /\ \E j \in SeqToSet(CandidateIndices(row, accounts_df)) :
                            /\ accounts_df[j].account_id = emitted[1].matched_accountid
                            /\ ScoreCandidate(settings, row, accounts_df[j])[1] = highest
      ]_vars

\* C6: for every row unmatched after Stages 1-2, a non-empty normalizedccn
\* that an account carries gives one record with score 99 and type "CCN
\* Match" to the first such account; otherwise a non-empty normalizeddhc
\* that an account carries gives one with type "DHC Match" to the first such
\* account; otherwise Stage 3 has no record for the row.
C6_DeterministicFallback ==
    pc \in {"finalize", "done"} =>
        \A i \in IndexSet(UnmatchedDf(scrub_df, email_matches_final, fuzzy_matches_df)) :
            LET ccn == FirstAccountWith("normalizedccn", scrub_df[i].normalizedccn)
                dhc == FirstAccountWith("normalizeddhc", scrub_df[i].normalizeddhc)
                IsRecord(k, j, type) ==
                    /\ deterministic_df[k].matched_accountid = accounts_df[j].account_id
                    /\ deterministic_df[k].matched_company_name = accounts_df[j].company
                    /\ deterministic_df[k].match_score = 9900
                    /\ deterministic_df[k].match_type = type
            IN IF CcnSucceeds(i)
               THEN /\ Cardinality(DeterministicRecordsOf(i)) = 1
                    /\ \A k \in DeterministicRecordsOf(i) : IsRecord(k, ccn, "CCN Match")
               ELSE IF DhcSucceeds(i)
               THEN /\ Cardinality(DeterministicRecordsOf(i)) = 1
                    /\ \A k \in DeterministicRecordsOf(i) : IsRecord(k, dhc, "DHC Match")
               ELSE DeterministicRecordsOf(i) = {}

\* a completed run with a CCN match to the first of several accounts of one
\* CCN, and a DHC match for a row whose CCN gave no hit
C6_Witness ==
    /\ pc = "done"
    /\ \E k \in 1..Len(deterministic_df) :
          /\ deterministic_df[k].match_type = "CCN Match"
          /\ Cardinality({j \in 1..Len(accounts_df) :
                 accounts_df[j].normalizedccn =
                     scrub_df[deterministic_df[k].original_index].normalizedccn}) > 1
    /\ \E k \in 1..Len(deterministic_df) : deterministic_df[k].match_type = "DHC Match"

\* C7: with everything else fixed and t1 <= t2, the rows that have a match
\* under minimum_final_score = t2 are among those that have one under t1;
\* t1 is the threshold of the run, whose matched rows are in _OUTPUT.
C7_ThresholdMonotone ==
    pc = "done" =>
        \A t2 \in Thresholds :
            settings.minimum_final_score <= t2 =>
                MatchedUnder(input_list, input_has_email, reference, t2)
                    \subseteq {i \in InputRows : RowCarriesMatch(i)}

\* C8: after any sequence of runs for one stem, the _MANUAL_REVIEW file on
\* disk holds exactly the rows of the latest run's input that no stage
\* matched, and no row of an earlier run.
C8_ManualReviewIsLatest ==
    pc = "done" => manual_review_file = RowsWithoutMatch

\* C9: the rows of _OUTPUT are in the order of the input rows
\* (non-decreasing original_index), whichever stage matched them.
C9_OutputOrder ==
    \A k \in 1..(Len(output_df) - 1) :
        output_df[k].original_index <= output_df[k + 1].original_index

\* a completed run whose first row was matched by Stage 3 and whose second
\* row by Stage 1
C9_Witness ==
    /\ pc = "done"
    /\ \E k \in OutputRowsOf(1) : output_df[k].match_type \in {"CCN Match", "DHC Match"}
    /\ \E k \in OutputRowsOf(2) : output_df[k].match_type = "Email Match"

\* C10: a field that is absent on the query row and absent on the candidate
\* row contributes nothing to the score and adds no detail fragment, for
\* every signal, after the normalisers have run.
C10_AbsentNeverMatchesAbsent ==
    pc # "load" =>
        \A i \in 1..Len(scrub_df), j \in 1..Len(accounts_df), signal \in Signals :
            (/\ input_list[i][RawColumn(signal)] = NA
             /\ reference.accounts[j][RawColumn(signal)] = NA)
                => SignalPart(signal, settings, scrub_df[i], accounts_df[j]) = NoSignal

\* the normalized projections the Normalizer adds to a row
Projections == {"normalizedcompany", "normalizedwebsite", "normalizeddomain",
                "normalizedphone", "normalizedstreet", "normalizedpostal",
                "normalized_lob", "normalizedccn", "normalizeddhc", "city",
                "state", "country"}

\* the digits of a text, in order
DigitPositions(text) == {k \in 1..Len(text) : Char(text, k) \in DigitSet}

\* C11: after normalisation every normalized projection of every row is a
\* string, and normalizedphone is "" for a row whose phone cell holds no
\* digit, whatever the other rows of the table hold.
C11_ProjectionsAreStrings ==
    pc # "load" =>
        \A i \in 1..Len(scrub_df) :
            /\ \A column \in Projections : scrub_df[i][column] # NA
            /\ DigitPositions(AsStr(input_list[i].phone)) = {}
                  => scrub_df[i].normalizedphone = ""

\* C12: the company rule applied to its own output returns that output.
C12_CompanyIdempotent ==
    pc # "load" =>
        \A i \in 1..Len(scrub_df) :
            NormCompany(scrub_df[i].normalizedcompany) = scrub_df[i].normalizedcompany

\* C13: the website rule applied to its own output returns that output, and
\* so does the domain rule.
C13_WebsiteIdempotent ==
    pc # "load" =>
        \A i \in 1..Len(scrub_df) :
            /\ NormWebsite(scrub_df[i].normalizedwebsite) = scrub_df[i].normalizedwebsite
            /\ NormDomain(scrub_df[i].normalizeddomain) = scrub_df[i].normalizeddomain

\* C19: normalizedpostal is the first five digits of the cell when the cell
\* holds at least five digits and "" otherwise; it is always empty or exactly
\* five digits.
C19_Postal ==
    pc # "load" =>
        \A i \in 1..Len(scrub_df) :
            LET cell == input_list[i].postal
                digits == IF cell = NA THEN {} ELSE DigitPositions(cell)
                r == scrub_df[i].normalizedpostal
                Nth(k) == CHOOSE p \in digits : Cardinality({q \in digits : q < p}) = k - 1
            IN IF Cardinality(digits) >= 5
               THEN /\ Len(r) = 5
                    /\ \A k \in 1..5 : Char(r, k) = Char(cell, Nth(k))
               ELSE r = ""

\* a normalised table with a postal cell of more than five digits between
\* other characters and a postal cell of fewer than five digits
C19_Witness ==
    /\ pc # "load"
    /\ \E i, j \in 1..Len(scrub_df) :
          /\ input_list[i].postal # NA
          /\ Cardinality(DigitPositions(input_list[i].postal)) > 5
          /\ Len(input_list[i].postal) > Cardinality(DigitPositions(input_list[i].postal))
          /\ input_list[j].postal # NA
          /\ Cardinality(DigitPositions(input_list[j].postal)) \in 1..4


\* C16, as the specification words it: every input row whose search string
\* is empty is left unmatched by the account pipeline and is in
\* _MANUAL_REVIEW.
C16_EmptySearchUnmatched ==
    pc = "done" =>
        \A i \in InputRows :
            SearchString(scrub_df[i]) = "" =>
                /\ ~RowCarriesMatch(i)
                /\ RowForManualReview(i)

\* C16, as the run does it: a row whose search string is empty is skipped by
\* Stage 2, which emits nothing for it; Stage 1 and Stage 3 still apply to
\* it, and when neither matches it the row is unmatched in _OUTPUT and is
\* written to _MANUAL_REVIEW.
C16_EmptySearchSkipsStage2 ==
    \A i \in 1..Len(scrub_df) :
        SearchString(scrub_df[i]) = "" =>
            /\ \A k \in 1..Len(all_fuzzy_matches) :
                  all_fuzzy_matches[k] # None => all_fuzzy_matches[k].original_index # i
            /\ pc = "done" =>
                  /\ \A k \in OutputRowsOf(i) :
                        StrategyOf(output_df[k].match_type) \in {"none", "email", "ccn", "dhc"}
                  /\ (~EmailSucceeds(i) /\ ~CcnSucceeds(i) /\ ~DhcSucceeds(i)) =>
                        /\ ~RowCarriesMatch(i)
                        /\ RowForManualReview(i)
                        /\ \E k \in 1..Len(manual_review_file) :
                              manual_review_file[k] = input_list[i]

\* a completed run with a row of empty search string that no stage matched
\* and a row of empty search string that Stage 3 matched
C16_Witness ==
    /\ pc = "done"
    /\ \E i, j \in InputRows :
          /\ SearchString(scrub_df[i]) = "" /\ RowForManualReview(i)
          /\ SearchString(scrub_df[j]) = "" /\ RowCarriesMatch(j)

\* C14: in every run, the pair the run works with once the vectorizer step
\* is over, loaded from _cache or not, is the pair a fit on the run's own
\* search_string column gives, row for row
C14_CacheSafety ==
    tfidf_matrix # <<>> => tfidf_matrix = FitTransform(accounts_df)

\* C15: whatever cache operation fails, the vectorizer step hands a pair to
\* Stage 2 and the run goes on
C15_CacheErrorsNonFatal ==
    [][pc = "vectorizer" => pc' = "fuzzy" /\ tfidf_matrix' # <<>>]_vars

\* the contacts of an account, in the order of the contact export
ContactsOf(account_id) ==
    SelectSeq(reference.contacts, LAMBDA c : c.accountid = account_id)

\* the rows of the contact run's input that have an account with a contact
RowsWithContacts ==
    {i \in 1..Len(contact_input.rows) :
        /\ contact_input.rows[i].matched_accountid # NA
        /\ ContactsOf(contact_input.rows[i].matched_accountid) # <<>>}

\* the score of contact k of row i's account, in hundredths
ContactScoreOf(i, k) ==
    ScoreCandidateContact(contact_settings, contact_input.columns,
                          contact_input.rows[i],
                          ContactsOf(contact_input.rows[i].matched_accountid)[k])[1]

\* the positions of the contacts of row i's account
ContactPositions(i) == 1..Len(ContactsOf(contact_input.rows[i].matched_accountid))

\* the first contact, in reference order, that no contact of the account
\* outscores
BestPosition(i) ==
    CHOOSE k \in ContactPositions(i) :
        /\ \A j \in ContactPositions(i) : ContactScoreOf(i, j) <= ContactScoreOf(i, k)
        /\ \A j \in 1..(k - 1) : ContactScoreOf(i, j) < ContactScoreOf(i, k)

\* whether _C_OUTPUT carries a contact on row i
ContactWritten(i) ==
    /\ contact_output.added # <<>>
    /\ contact_output.rows[i].Matched_ContactID # NA

\* row i's email cell is a text equal to the email of contact c
EmailEquals(i, c) ==
    /\ "email" \in contact_input.columns
    /\ contact_input.rows[i].email \notin {NA, ""}
    /\ contact_input.rows[i].email = c.email

\* C17: when the contact run is over, every row that has an account with a
\* contact carries the first of the highest-scoring contacts of that account
\* if and only if that score reaches minimum_contact_score, with the score
\* written beside it; a kept contact whose email is the row's email scores at
\* least the email weight
C17_ContactSelection ==
    c_pc = "done" =>
        /\ Len(contact_output.rows) = Len(contact_input.rows)
        /\ \A i \in RowsWithContacts :
              LET best == ContactsOf(contact_input.rows[i].matched_accountid)[BestPosition(i)]
                  top == ContactScoreOf(i, BestPosition(i))
              IN /\ ContactWritten(i) <=> top >= 100 * contact_settings.minimum_contact_score
                 /\ ContactWritten(i) =>
                       /\ contact_output.rows[i].Matched_ContactID = best.id
                       /\ contact_output.rows[i].Matched_FirstName = best.firstname
                       /\ contact_output.rows[i].Matched_LastName = best.lastname
                       /\ contact_output.rows[i].Matched_Title = best.title
                       /\ contact_output.rows[i].Matched_Email = best.email
                       /\ contact_output.rows[i].Matched_ContactPhone = best.phone
                       /\ contact_output.rows[i].ContactMatchScore = top
                 /\ EmailEquals(i, best) => top >= 100 * contact_settings.email

\* a finished contact run with a row whose two best contacts tie, written
\* with the earlier one, beside a row whose best contact stays below the
\* threshold
C17_Witness ==
    /\ c_pc = "done"
    /\ \E i \in RowsWithContacts :
          /\ ContactWritten(i)
          /\ EmailEquals(i, ContactsOf(contact_input.rows[i].matched_accountid)[BestPosition(i)])
          /\ \E k \in ContactPositions(i) :
                /\ k > BestPosition(i)
                /\ ContactScoreOf(i, k) = ContactScoreOf(i, BestPosition(i))
    /\ \E i \in RowsWithContacts :
          /\ ~ContactWritten(i)
          /\ ContactScoreOf(i, BestPosition(i)) > 0

\* C18: a contact run that ends has written _C_OUTPUT with every row of its
\* input, cell for cell, and the eight added columns
C18_ContactOutputSchema ==
    c_pc = "done" =>
        /\ contact_output.written
        /\ Len(contact_output.rows) = Len(contact_input.rows)
        /\ \A i \in 1..Len(contact_input.rows) :
              \A f \in DOMAIN contact_input.rows[i] :
                 /\ f \in DOMAIN contact_output.rows[i]
                 /\ contact_output.rows[i][f] = contact_input.rows[i][f]
        /\ contact_output.added = MatchedColumns

\* a section of config.ini that holds all of these keys
SectionComplete(section, keys) ==
    /\ config # Unreadable
    /\ section \in DOMAIN config
    /\ \A k \in SeqToSet(keys) : k \in DOMAIN config[section]

\* every required section is there with every required key
RequiredPresent ==
    /\ SectionComplete("Paths", PathKeys)
    /\ SectionComplete("Fuzzy_Matching_Thresholds", ThresholdKeys)
    /\ SectionComplete("Scoring_Weights", WeightKeys)

\* every numeric field the file holds is the text of a number
NumbersParse ==
    \A s \in DOMAIN NumericKeys \cap DOMAIN config :
        \A k \in NumericKeys[s] \cap DOMAIN config[s] : ParseFloat(config[s][k]).ok

\* the configured paths under these keys exist
PathsExist(keys) == \A k \in keys : ResolvePath(config["Paths"][k]) \in filesystem

\* the configured number under a key, in hundredths, 0 for an absent key
ConfiguredNumber(section, key) ==
    IF section \in DOMAIN config /\ key \in DOMAIN config[section]
    THEN ParseFloat(config[section][key]).value
    ELSE 0

\* the fields of a Settings are the configured values
FieldsAsConfigured(st) ==
    /\ \A k \in SeqToSet(PathKeys) :
          /\ st.paths[k] = ResolvePath(config["Paths"][k])
          /\ StartsWith(st.paths[k], "/")
    /\ \A k \in SeqToSet(ThresholdKeys) :
          st.thresholds[k] = ConfiguredNumber("Fuzzy_Matching_Thresholds", k)
    /\ \A k \in SeqToSet(WeightKeys) :
          st.weights[k] = ConfiguredNumber("Scoring_Weights", k)
    /\ \A k \in SeqToSet(PenaltyKeys) :
          st.penalties[k] = ConfiguredNumber("Scoring_Penalties", k)
    /\ \A k \in SeqToSet(ContactKeys) :
          st.contact_weights[k] = ConfiguredNumber("Scoring_Contact", k)

\* a key of a section that is missing, not a number, or a path that does not
\* exist
OffendingKey(section, key) ==
    \/ key \notin DOMAIN config[section]
    \/ /\ section \in DOMAIN NumericKeys
       /\ ~ParseFloat(config[section][key]).ok
    \/ /\ section = "Paths"
       /\ ResolvePath(config["Paths"][key]) \notin filesystem

\* the error names keys, each of them offending
NamesOffendingKey(e) ==
    /\ e.section \in DOMAIN config
    /\ e.keys # {}
    /\ \A k \in e.keys : OffendingKey(e.section, k)

\* the error names a required section the file does not have
NamesMissingSection(e) ==
    /\ e.section \in {"Paths", "Fuzzy_Matching_Thresholds", "Scoring_Weights"}
    /\ e.section \notin DOMAIN config
    /\ e.keys = {}

\* the step in which load_settings returns or raises
LoadSettingsEnds == load_result = NotLoaded /\ load_result' # NotLoaded

FuzzyRows == FuzzySearchDf(scrub_df, email_matches_final)

\* the loop is at a row that has a search string, and so is scored
ScoresRow ==
    /\ pc = "fuzzy"
    /\ cursor <= Len(FuzzyRows)
    /\ SearchString(FuzzyRows[cursor]) # ""

\* the positions of the accounts whose column holds the row's key; none for
\* a key that is absent or empty
AccountsUnder(row, column) ==
    IF row[column] \in {NA, ""} THEN {}
    ELSE {j \in 1..Len(accounts_df) : accounts_df[j][column] = row[column]}

\* the block the priority postal, state, domain, phone, all gives a row
BlockOf(row) ==
    IF AccountsUnder(row, "normalizedpostal") # {}
    THEN AccountsUnder(row, "normalizedpostal")
    ELSE IF AccountsUnder(row, "state") # {} THEN AccountsUnder(row, "state")
    ELSE IF AccountsUnder(row, "normalizeddomain") # {}
    THEN AccountsUnder(row, "normalizeddomain")
    ELSE IF AccountsUnder(row, "normalizedphone") # {}
    THEN AccountsUnder(row, "normalizedphone")
    ELSE 1..Len(accounts_df)

BlockColumns == {"normalizedpostal", "state", "normalizeddomain", "normalizedphone"}

\* C21: the candidates of every scored row are the accounts of the first
\* non-empty block in the order postal, state, domain, phone, or all
\* accounts, each once and in account order; they are never none, and no
\* index answers the empty key
C21_BlockerPriority ==
    [][ScoresRow =>
          /\ SeqToSet(candidate_indices') = BlockOf(FuzzyRows[cursor])
          /\ \A a, b \in 1..Len(candidate_indices') :
                a < b => candidate_indices'[a] < candidate_indices'[b]
          /\ candidate_indices' # <<>>
          /\ \A column \in BlockColumns : IndexGet(accounts_df, column, "") = <<>>]_vars

\* a row, just scored, whose postal code and state are in no index and
\* whose domain is, beside accounts with an empty postal code
C21_Witness ==
    /\ pc = "fuzzy"
    /\ cursor > 1
    /\ LET row == FuzzyRows[cursor - 1]
       IN /\ SearchString(row) # ""
          /\ row.normalizedpostal # ""
          /\ row.state # ""
          /\ AccountsUnder(row, "normalizedpostal") = {}
          /\ AccountsUnder(row, "state") = {}
          /\ SeqToSet(candidate_indices) = AccountsUnder(row, "normalizeddomain")
          /\ candidate_indices # <<>>
          /\ Len(candidate_indices) < Len(accounts_df)
    /\ \E j \in 1..Len(accounts_df) : accounts_df[j].normalizedpostal = ""

\* the score of the account at position j for a query row, in hundredths
ScoreOf(row, j) == ScoreCandidate(settings, row, accounts_df[j])[1]

\* the first place in the scored order whose account no scored account
\* outscores
FirstBest(row, order) ==
    CHOOSE a \in 1..Len(order) :
        /\ \A b \in 1..Len(order) : ScoreOf(row, order[b]) <= ScoreOf(row, order[a])
        /\ \A b \in 1..(a - 1) : ScoreOf(row, order[b]) < ScoreOf(row, order[a])

\* two places of the scored order hold accounts that share the highest score
TiedAtTop(row, order) ==
    \E a, b \in 1..Len(order) :
        /\ a # b
        /\ ScoreOf(row, order[a]) = ScoreOf(row, order[b])
        /\ \A c \in 1..Len(order) : ScoreOf(row, order[c]) <= ScoreOf(row, order[a])

\* C22: a scored row has at most 25 candidates scored, each a candidate of
\* its block and none twice; when several of them share the highest score,
\* what the row emits is the first of these in the order scored
C22_Stage2TieBreak ==
    [][ScoresRow /\ cursor' = cursor + 1 =>
          /\ Len(top_indices') <= TopK
          /\ SeqToSet(top_indices') \subseteq SeqToSet(candidate_indices')
          /\ \A a, b \in 1..Len(top_indices') : a # b => top_indices'[a] # top_indices'[b]
          /\ (/\ Len(all_fuzzy_matches') > Len(all_fuzzy_matches)
              /\ TiedAtTop(FuzzyRows[cursor], top_indices')) =>
                LET emitted == all_fuzzy_matches'[Len(all_fuzzy_matches')]
                    first == top_indices'[FirstBest(FuzzyRows[cursor], top_indices')]
                IN /\ emitted # None
                   /\ emitted.matched_accountid = accounts_df[first].account_id
                   /\ emitted.match_score = ScoreOf(FuzzyRows[cursor], first)]_vars

\* the states and countries a normalised cell is tried with
StatePool == {"", "tx", "ca", "ny"}
CountryPool == {"", "us", "ca", "gb"}

\* the fragments _score_candidate collects for a query row and a candidate
DetailsOf(q, c) == CatParts(ScoreParts(settings, q, c))

StateFragment == "StateMismatch(-" \o ToString(settings.location_mismatch_penalty) \o ")"
CountryFragment == "CountryMismatch(-" \o ToString(settings.location_mismatch_penalty) \o ")"

\* candidate c with the cell of the column replaced
WithState(c, s) == [c EXCEPT !.state = s]
WithCountry(c, s) == [c EXCEPT !.country = s]

\* what _score_candidate returns for `other` is what it returns for `same`
\* with the penalty taken off and the fragment added
Penalised(q, same, other, fragment) ==
    /\ ScoreCandidate(settings, q, other)[1]
          = ScoreCandidate(settings, q, same)[1] - 100 * settings.location_mismatch_penalty
    /\ fragment \in SeqToSet(DetailsOf(q, other))
    /\ fragment \notin SeqToSet(DetailsOf(q, same))
    /\ SelectSeq(DetailsOf(q, other), LAMBDA f : f # fragment) = DetailsOf(q, same)

\* C23: for the row being scored and each candidate scored for it, the
\* candidate with another non-empty state scores exactly the penalty less
\* than the same candidate with the row's state and carries the StateMismatch
\* fragment; so for the country; a state or country empty on either side
\* costs nothing
C23_LocationPenalty ==
    [][ScoresRow /\ cursor' = cursor + 1 =>
          LET q == FuzzyRows[cursor]
          IN \A k \in 1..Len(top_indices') :
                LET c == accounts_df[top_indices'[k]]
                IN /\ \A s \in StatePool :
                         IF q.state # "" /\ s # "" /\ s # q.state
                         THEN Penalised(q, WithState(c, q.state), WithState(c, s),
                                        StateFragment)
                         ELSE /\ ScoreCandidate(settings, q, WithState(c, s))
                                    = ScoreCandidate(settings, q, WithState(c, q.state))
                              /\ StateFragment \notin SeqToSet(DetailsOf(q, WithState(c, s)))
                   /\ \A s \in CountryPool :
                         IF q.country # "" /\ s # "" /\ s # q.country
                         THEN Penalised(q, WithCountry(c, q.country), WithCountry(c, s),
                                        CountryFragment)
                         ELSE /\ ScoreCandidate(settings, q, WithCountry(c, s))
                                    = ScoreCandidate(settings, q, WithCountry(c, q.country))
                              /\ CountryFragment
                                    \notin SeqToSet(DetailsOf(q, WithCountry(c, s)))]_vars

\* a row was scored against a candidate of another state, and against one
\* without a state
C23_Witness ==
    /\ pc = "fuzzy"
    /\ cursor > 1
    /\ top_indices # <<>>
    /\ SearchString(FuzzyRows[cursor - 1]) # ""
    /\ \E k \in 1..Len(top_indices) :
          StateFragment \in SeqToSet(DetailsOf(FuzzyRows[cursor - 1],
                                               accounts_df[top_indices[k]]))

\* the match records of the three stages, as concatenated at lines 427-434
StageRecords == email_matches_final \o fuzzy_matches_df \o deterministic_df

\* C24: after a completed run the three stages together hold at most one
\* record per original_index, and _OUTPUT has exactly as many rows as the
\* input
C24_OneRecordPerRow ==
    pc = "done" =>
        /\ \A a, b \in 1..Len(StageRecords) :
              StageRecords[a].original_index = StageRecords[b].original_index => a = b
        /\ Len(output_df) = Len(input_list)

\* C25: once Stage 1 has run, an input row whose email cell is absent has no
\* Stage 1 record and is among the rows Stage 2 scans
C25_AbsentEmailNeverPivots ==
    pc \notin {"load", "email"} =>
        \A i \in InputRows :
            input_list[i].email = NA =>
                /\ i \notin IndexSet(email_matches_final)
                /\ i \in IndexSet(FuzzySearchDf(scrub_df, email_matches_final))

\* the account ids of the account reference
ReferenceAccountIds == {reference.accounts[j].account_id : j \in 1..Len(reference.accounts)}

\* C26: after a completed run every row of _OUTPUT that has a match_type
\* (every match record sets match_score and match_type together) has a
\* matched_accountid, which is the account_id of an account of the
\* reference; every row of _OUTPUT without a matched_accountid is among the
\* rows for _MANUAL_REVIEW
C26_MatchedMeansResolved ==
    pc = "done" =>
        \A k \in 1..Len(output_df) :
            /\ output_df[k].match_type # NA =>
                  /\ output_df[k].matched_accountid # NA
                  /\ output_df[k].matched_accountid \in ReferenceAccountIds
            /\ output_df[k].matched_accountid = NA =>
                  RowForManualReview(output_df[k].original_index)

\* the thresholds a run is compared under: those of the runs and one above
\* every score
ThresholdPool == Thresholds \cup {4 * minimum_final_score}

\* the match records at the end of a whole run under the threshold t (lines
\* 175-462; none when line 370 raises), the candidates of every row scored
\* in the order of the reference
RecordsUnder(list, has_email, ref, t) ==
    LET scrub == LoadScrub(list)
        accounts == LoadAccounts(ref.accounts)
        email == EmailStage(scrub, has_email, ref.contacts, accounts)
        search == FuzzySearchDf(scrub, email)
        fuzzy_list == Flatten([k \in 1..Len(search) |->
                         FuzzyRow(SettingsOf(t), search[k], accounts,
                                  CandidateIndices(search[k], accounts))])
        frame == FuzzyFrame(fuzzy_list)
        deterministic == DeterministicStage(UnmatchedDf(scrub, email, frame), accounts)
    IN IF FrameRaises(fuzzy_list) THEN <<>>
       ELSE FinalMatches(email, frame, deterministic)

\* the match records of input row i among records
RecordsOf(records, i) ==
    {records[k] : k \in {h \in 1..Len(records) : records[h].original_index = i}}

\* the match records of input row i in _OUTPUT
OutputRecordsOf(i) ==
    {output_df[k] : k \in {h \in OutputRowsOf(i) : output_df[h].match_type # NA}}

\* C27, as the specification words it: with the inputs fixed, a row that has
\* a match under the threshold of the run and under another threshold has
\* the same account and the same match_type under both
C27_ThresholdDoesNotRedirect ==
    pc = "done" =>
        \A t \in ThresholdPool :
            \A records \in {RecordsUnder(input_list, input_has_email, reference, t)} :
                \A k \in 1..Len(output_df) : \A h \in 1..Len(records) :
                    (/\ output_df[k].match_type # NA
                     /\ output_df[k].original_index = records[h].original_index)
                        => /\ output_df[k].matched_accountid = records[h].matched_accountid
                           /\ output_df[k].match_type = records[h].match_type

\* C27, as the run does it: a row that Stage 2 matches under the threshold
\* of the run and under another threshold, or that the other stages match
\* under both, has the same account and the same match_type under both
C27_ThresholdKeepsStageMatch ==
    pc = "done" =>
        \A t \in ThresholdPool :
            \A records \in {RecordsUnder(input_list, input_has_email, reference, t)} :
                \A k \in 1..Len(output_df) : \A h \in 1..Len(records) :
                    (/\ output_df[k].match_type # NA
                     /\ output_df[k].original_index = records[h].original_index
                     /\ (StrategyOf(output_df[k].match_type) = "fuzzy")
                            = (StrategyOf(records[h].match_type) = "fuzzy"))
                        => /\ output_df[k].matched_accountid = records[h].matched_accountid
                           /\ output_df[k].match_type = records[h].match_type

\* a completed run whose Stage 2 matched a row that Stage 2 matches under
\* another threshold as well
C27_Witness ==
    /\ pc = "done"
    /\ \E t \in ThresholdPool \ {settings.minimum_final_score} : \E i \in InputRows :
          /\ \E a \in OutputRecordsOf(i) : StrategyOf(a.match_type) = "fuzzy"
          /\ \E b \in RecordsOf(RecordsUnder(input_list, input_has_email, reference, t), i) :
                StrategyOf(b.match_type) = "fuzzy"

\* the contacts of the export whose cells are the Matched_ cells of row i of
\* _C_OUTPUT
EmittedContacts(i) ==
    {k \in 1..Len(reference.contacts) :
        /\ reference.contacts[k].id = contact_output.rows[i].Matched_ContactID
        /\ reference.contacts[k].firstname = contact_output.rows[i].Matched_FirstName
        /\ reference.contacts[k].lastname = contact_output.rows[i].Matched_LastName
        /\ reference.contacts[k].title = contact_output.rows[i].Matched_Title
        /\ reference.contacts[k].email = contact_output.rows[i].Matched_Email
        /\ reference.contacts[k].phone = contact_output.rows[i].Matched_ContactPhone}

\* C28: when the contact run is over, _C_OUTPUT holds the rows of its input
\* one for one and in their order; the contact written on a row is a contact
\* of the account in the row's matched_accountid; a row without a
\* matched_accountid has no contact cell
C28_ContactWithinAccount ==
    c_pc = "done" =>
        /\ Len(contact_output.rows) = Len(contact_input.rows)
        /\ \A i \in 1..Len(contact_input.rows) :
              /\ \A f \in DOMAIN contact_input.rows[i] :
                    contact_output.rows[i][f] = contact_input.rows[i][f]
              /\ ContactWritten(i) =>
                    /\ EmittedContacts(i) # {}
                    /\ \A k \in EmittedContacts(i) :
                          reference.contacts[k].accountid
                              = contact_output.rows[i].matched_accountid
              /\ contact_input.rows[i].matched_accountid = NA =>
                    \A f \in DOMAIN contact_output.rows[i] \ DOMAIN contact_input.rows[i] :
                        /\ f \in DOMAIN NoContactMatch
                        /\ contact_output.rows[i][f] = NoContactMatch[f]

\* a finished contact run that wrote a contact on a row whose account is not
\* the only one with contacts, beside a row without an account
C28_Witness ==
    /\ c_pc = "done"
    /\ \E i \in 1..Len(contact_input.rows) :
          /\ ContactWritten(i)
          /\ \E k \in 1..Len(reference.contacts) :
                reference.contacts[k].accountid # contact_input.rows[i].matched_accountid
    /\ \E i \in 1..Len(contact_input.rows) :
          contact_input.rows[i].matched_accountid = NA

====
